---- MODULE Spec2Model ----
(***************************************************************************)
(* State-machine model of scripts/analyze-seo.js, the SEO analyzer for     *)
(* Blade templates: template normalisation (stripBlade), the page rule set *)
(* (scanHtml), the fix engine (applyFixes), the technical-artifact checks  *)
(* (scanRobots, scanSitemaps, scanRoutes), the project aggregator          *)
(* (runProjectWideChecks), the scorer (scoreIssues, scoreProject) and the  *)
(* driver (run).                                                           *)
(*                                                                         *)
(* TEXT.  A JavaScript string is modelled as a sequence of atoms.  An atom *)
(* is a piece of text that none of the program's regular expressions ever  *)
(* splits: a tag opener ("<meta"), the character ">", a closing tag, a     *)
(* whole fixed attribute (name="description"), the opening part of an      *)
(* attribute whose value is inspected (content="), a closing quote, a      *)
(* value, a newline, a Blade directive, the pieces of a Blade              *)
(* interpolation.  Every regular expression of the source is an operator   *)
(* over atom sequences that matches what the expression matches on the     *)
(* text the atoms spell.  The expression {{ url()->current() }} contains   *)
(* the character ">", so it is spelled with three atoms, the middle one    *)
(* being ">".                                                              *)
(*                                                                         *)
(* PAGES.  A page is a record: src, the markup as atoms (head elements,    *)
(* images, JSON-LD blocks, the text the fix engine edits), and what the    *)
(* parser reports of the body text: headings, words, tokens, links.        *)
(***************************************************************************)
EXTENDS Integers, Sequences, FiniteSets, TLC

VARIABLES
    pc,             \* position of run(): "start", "pages", "robots", ... "done"
    fixMode,        \* --fix
    useHttp,        \* --http
    appUrl,         \* readAppUrl(): NULL or the base URL
    views,          \* resources/views: the template files, in the order walk() meets them
    publicDir,      \* whether public/ exists
    robots,         \* public/robots.txt: [exists, lines]
    sitemaps,       \* public/sitemap*.xml: the files, in readdirSync order
    routesFile,     \* routes/web.php: [exists, decls], the Route:: declarations in order
    queue,          \* pages (paths or routes) the page loop has still to visit
    files,          \* const files = []
    issues,         \* const issues = []   (project issues)
    analysisCache,  \* const analysisCache = new Map(), kept in insertion order
    report,         \* <<>>, then <<the report printed by run()>>
    pass,           \* number of the current run over the project, from 1
    history,        \* per completed run: its report and the views it left
    hist,           \* observations of the current run: pages analysed,
                    \* aggregations, whether the files have been scored
    input,          \* argument of the pure function under study
    output          \* its result

vars == <<pc, fixMode, useHttp, appUrl, views, publicDir, robots, sitemaps, routesFile,
          queue, files, issues, analysisCache, report, pass, history, hist,
          input, output>>

runVars == <<pc, fixMode, useHttp, appUrl, views, publicDir, robots, sitemaps, routesFile,
             queue, files, issues, analysisCache, report, pass, history, hist>>
pureVars == <<input, output>>

NULL == "null"
DYNAMIC == "__DYNAMIC__"

Min(S) == CHOOSE x \in S : \A y \in S : x <= y
Max(S) == CHOOSE x \in S : \A y \in S : x >= y
FirstIn(S) == IF S = {} THEN 0 ELSE Min(S)
LastIn(S) == IF S = {} THEN 0 ELSE Max(S)

\* The helpers below split their range in two halves, which keeps the depth of
\* the evaluation logarithmic in the length of the text.
RECURSIVE PickRange(_, _, _, _)
PickRange(s, I, a, b) ==
    IF a > b THEN <<>>
    ELSE IF a = b THEN (IF a \in I THEN <<s[a]>> ELSE <<>>)
    ELSE PickRange(s, I, a, (a + b) \div 2) \o PickRange(s, I, (a + b) \div 2 + 1, b)
\* the subsequence of s at the indexes I
Pick(s, I) == PickRange(s, I, 1, Len(s))

RECURSIVE ConcatRange(_, _, _)
ConcatRange(ss, a, b) ==
    IF a > b THEN <<>>
    ELSE IF a = b THEN ss[a]
    ELSE ConcatRange(ss, a, (a + b) \div 2) \o ConcatRange(ss, (a + b) \div 2 + 1, b)
\* the concatenation of the sequences ss[1], ss[2], ...
Concat(ss) == ConcatRange(ss, 1, Len(ss))

RECURSIVE SumRange(_, _, _)
SumRange(f, a, b) ==
    IF a > b THEN 0
    ELSE IF a = b THEN f[a]
    ELSE SumRange(f, a, (a + b) \div 2) + SumRange(f, (a + b) \div 2 + 1, b)

RECURSIVE AscendingRange(_, _, _)
AscendingRange(S, a, b) ==
    IF a > b THEN <<>>
    ELSE IF a = b THEN (IF a \in S THEN <<a>> ELSE <<>>)
    ELSE AscendingRange(S, a, (a + b) \div 2) \o AscendingRange(S, (a + b) \div 2 + 1, b)
\* the members of a finite set of positive numbers, ascending (document order)
Ascending(S) == IF S = {} THEN <<>> ELSE AscendingRange(S, Min(S), Max(S))

\* s with s[a..b] replaced by r (b = a-1 inserts r before s[a])
Splice(s, a, b, r) == SubSeq(s, 1, a - 1) \o r \o SubSeq(s, b + 1, Len(s))

(***************************************************************************)
(* Atoms                                                                   *)
(***************************************************************************)
Q == "\""
NL == "\n"
NLI == "\n    "                       \* the "\n    " insertIntoHead writes
\* an attribute atom carries the blank that separates it from what precedes it
AttrOpen(k) == " " \o k \o "=" \o Q          \*  content="
Attr(k, v) == " " \o k \o "=" \o Q \o v \o Q \*  name="description"

ogRequired == <<"og:title", "og:description", "og:url", "og:type", "og:image">>
twitterRequired == <<"twitter:card", "twitter:title", "twitter:description", "twitter:image">>

FixedAttrs ==
    {Attr("name", "description"), Attr("name", "robots"), Attr("rel", "canonical"),
     Attr("src", "a.png"), Attr("src", "a.svg"), Attr("width", "10"), Attr("height", "10"),
     Attr("loading", "lazy"), Attr("property", "og:locale"),
     Attr("property", "og:site_name"), Attr("name", "twitter:site"),
     Attr("rel", "alternate"), Attr("hreflang", "en"), Attr("hreflang", "x-default"),
     Attr("type", "application/ld+json")}
    \cup {Attr("property", ogRequired[i]) : i \in 1..Len(ogRequired)}
    \cup {Attr("name", twitterRequired[i]) : i \in 1..Len(twitterRequired)}
ValueAttrs == {"content", "href", "alt"}

\* atoms whose text holds the character '>' (always as their last character)
GtAtoms == {">", "</title>", "</head>", "</header>", "</body>", "</h1>", "</h2>", "</script>"}
HasGt(a) == a \in GtAtoms
\* atoms whose text holds a quote character
QuoteAtoms == {Q} \cup {AttrOpen(k) : k \in ValueAttrs} \cup FixedAttrs
HasQuote(a) == a \in QuoteAtoms
\* atoms whose text starts with a newline
IsNl(a) == a \in {NL, NLI}
\* atoms that are only white space
IsSpace(a) == a \in {NL, NLI, " "}

\* the directive names of stripBlade's first expression that the inputs use
Directives == {"@if", "@endif", "@section", "@yield", "@include", "@extends"}
\* {{ ... }}: an atom that opens an interpolation, one that closes it
InterpOpen == "{{ url()-"
InterpClose == "current() }}"
InterpWhole == "{{ $x }}"
RawWhole == "{!! $x !!}"
Opens(a) == a \in {InterpOpen, InterpWhole}
Closes(a) == a \in {InterpClose, InterpWhole}
CurrentUrl == <<InterpOpen, ">", InterpClose>>    \* {{ url()->current() }}

(***************************************************************************)
(* stripBlade                                                              *)
(***************************************************************************)
\* /@(?:if|...)\b[^\n]*/gi -> "": a directive and the rest of its line
StripDirectives(s) ==
    Pick(s, {i \in 1..Len(s) :
               ~ \E d \in 1..i : /\ s[d] \in Directives
                                 /\ \A j \in (d + 1)..i : ~IsNl(s[j])})

\* /\{\{[\s\S]*?\}\}/g -> DYNAMIC: leftmost, shortest spans, one span per step
RECURSIVE StripInterpFrom(_, _)
StripInterpFrom(s, i) ==
    LET o == FirstIn({j \in i..Len(s) : Opens(s[j]) /\ \E c \in j..Len(s) : Closes(s[c])})
        c == FirstIn({j \in o..Len(s) : Closes(s[j])})
    IN  IF o = 0 THEN SubSeq(s, i, Len(s))
        ELSE SubSeq(s, i, o - 1) \o <<DYNAMIC>> \o StripInterpFrom(s, c + 1)

\* /\{!![\s\S]*?!!\}/g -> DYNAMIC
StripRaw(s) == [i \in 1..Len(s) |-> IF s[i] = RawWhole THEN DYNAMIC ELSE s[i]]

stripBlade(raw) == StripRaw(StripInterpFrom(StripDirectives(raw), 1))

(***************************************************************************)
(* The parsed document (node-html-parser), read off the atoms              *)
(***************************************************************************)
Openers == {"<head", "<header", "<title", "<meta", "<link", "<img", "<body", "<h1", "<h2",
            "<script"}

\* index of the first atom after i that holds '>', 0 if none
FirstGt(s, i) == FirstIn({j \in (i + 1)..Len(s) : HasGt(s[j])})
TagEnd(s, i) == FirstGt(s, i)
IsTag(s, i) == s[i] \in Openers /\ TagEnd(s, i) # 0 /\ s[TagEnd(s, i)] = ">"
\* querySelectorAll(name) on the root
TagsOf(s, name) == {i \in 1..Len(s) : s[i] = name /\ IsTag(s, i)}
InTag(s, j) == \E i \in 1..j : IsTag(s, i) /\ j <= TagEnd(s, i)
HasAttr(s, i, a) == \E k \in (i + 1)..(TagEnd(s, i) - 1) : s[k] = a

\* getAttribute(k): the value's atoms, <<>> when the attribute is absent
GetAttr(s, i, k) ==
    LET ks == {j \in (i + 1)..(TagEnd(s, i) - 1) : s[j] = AttrOpen(k)}
        at == LastIn(ks)
        q  == FirstIn({j \in (at + 1)..Len(s) : s[j] = Q})
    IN  IF ks = {} \/ q = 0 THEN <<>> ELSE SubSeq(s, at + 1, q - 1)

\* String.prototype.trim
Trim(v) ==
    LET solid == {i \in 1..Len(v) : ~IsSpace(v[i])}
    IN  IF solid = {} THEN <<>> ELSE SubSeq(v, Min(solid), Max(solid))

\* .replace(/\s+/g, " "): every run of white space becomes one blank
CollapseWs(v) ==
    LET keep == {i \in 1..Len(v) : ~(IsSpace(v[i]) /\ i > 1 /\ IsSpace(v[i - 1]))}
        one  == [i \in 1..Len(v) |-> IF IsSpace(v[i]) THEN " " ELSE v[i]]
    IN  Pick(one, keep)

\* root.querySelector("head") and the atoms that lie inside it
HeadTag(s) == FirstIn(TagsOf(s, "<head"))
HeadClose(s) ==
    LET c == FirstIn({j \in (HeadTag(s) + 1)..Len(s) : s[j] = "</head>"})
    IN  IF c = 0 THEN Len(s) + 1 ELSE c
InHead(s, i) == HeadTag(s) # 0 /\ i > TagEnd(s, HeadTag(s)) /\ i < HeadClose(s)
\* head?.querySelectorAll(name[attr])
HeadTags(s, name) == {i \in TagsOf(s, name) : InHead(s, i)}
HeadTagsWith(s, name, a) == {i \in HeadTags(s, name) : HasAttr(s, i, a)}

\* node.text of the element opened at i and closed by closer: the text atoms inside
NodeText(s, i, closer) ==
    LET c  == FirstIn({j \in (TagEnd(s, i) + 1)..Len(s) : s[j] = closer})
        to == IF c = 0 THEN Len(s) ELSE c - 1
    IN  Pick(s, {j \in (TagEnd(s, i) + 1)..to : ~InTag(s, j) /\ ~HasGt(s[j])})

\* textContent(node)
textContent(v) == Trim(CollapseWs(v))

\* the lower-cased text of an atom with every character outside [a-z0-9\s] blanked
NormAtom(a) ==
    CASE a = "A" -> <<"a">>
      [] a = "B" -> <<"b">>
      [] a = "!" -> <<" ">>
      [] a = "TODO" -> <<"todo">>
      [] a = DYNAMIC -> <<" ", "dynamic", " ">>
      [] OTHER -> <<a>>

normalizeText(text) ==
    Trim(CollapseWs(Concat([i \in 1..Len(text) |-> NormAtom(text[i])])))

\* text.length
TextLen(v) == SumRange([i \in 1..Len(v) |-> Len(v[i])], 1, Len(v))

(***************************************************************************)
(* Paths and URLs.  A route is spelled with the atoms "/", a segment,      *)
(* "?..." (a query) and "#..." (a fragment); a URL is an origin atom       *)
(* followed by a route.                                                    *)
(***************************************************************************)
Origins == {"https://a.test", "http://a.test", "https://b.test"}
HttpOrigins == {"http://a.test"}
\* a query whose text holds another URL
HttpQueries == {"?u=http://b.test"}
IsQuery(a) == a \in {"?y=1"} \cup HttpQueries
IsFragment(a) == a \in {"#top"}

\* normalizePath(input); the empty text stands for null as well (both are falsy
\* and every caller only tests the result for truthiness or looks it up)
normalizePath(in) ==
    IF in = <<>> THEN <<>>
    ELSE LET h  == FirstIn({i \in 1..Len(in) : IsFragment(in[i])})
             a  == IF h = 0 THEN in ELSE SubSeq(in, 1, h - 1)
             q  == FirstIn({i \in 1..Len(a) : IsQuery(a[i])})
             st == IF q = 0 THEN a ELSE SubSeq(a, 1, q - 1)
         IN  IF st = <<>> THEN <<>>
             ELSE IF st = <<"/">> THEN st
             ELSE IF st[Len(st)] = "/" THEN SubSeq(st, 1, Len(st) - 1)
             ELSE st

\* a view path relative to viewRoot is the list of its segments, the last one
\* without ".blade.php"; guessPath(filePath)
RECURSIVE JoinSegs(_)
JoinSegs(p) == IF p = <<>> THEN <<>> ELSE <<"/", Head(p)>> \o JoinSegs(Tail(p))
\* guessPath without the branch of line 110: x/index keeps its last segment
guessPathKeepIndex(filePath) ==
    IF filePath = <<"index">> THEN <<"/">>
    ELSE JoinSegs(filePath)
guessPath(filePath) ==
    IF filePath = <<"index">> THEN <<"/">>
    ELSE IF Len(filePath) > 1 /\ filePath[Len(filePath)] = "index"
         THEN JoinSegs(SubSeq(filePath, 1, Len(filePath) - 1))
         ELSE JoinSegs(filePath)

\* isInternalHref(href)
isInternalHref(href) ==
    /\ href # <<>>
    /\ href[1] = "/"
    /\ ~(Len(href) > 1 /\ href[2] = "/")

(***************************************************************************)
(* scanHtml                                                                *)
(***************************************************************************)
Issue(type, severity, key) ==
    [type |-> type, severity |-> severity, key |-> key,
     files |-> <<>>, route |-> <<>>, similarity |-> 0]
\* details.files (a list of paths), details.path (a route), details.other with
\* details.similarity (in hundredths)
IssueFiles(type, severity, paths) == [Issue(type, severity, "") EXCEPT !.files = paths]
IssueRoute(type, severity, route) == [Issue(type, severity, "") EXCEPT !.route = route]
IssueOther(type, severity, other, similarity) ==
    [Issue(type, severity, "") EXCEPT !.files = <<other>>, !.similarity = similarity]
When(c, is) == IF c THEN is ELSE <<>>
HasType(list, type) == \E i \in 1..Len(list) : list[i].type = type

\* lines 219-241: h1 count and heading hierarchy, over the heading levels in
\* document order
\* HeadingIssues with the jump test of line 236 as current - prev >= 1
HeadingIssuesAnyStep(levels) ==
    LET h1 == Cardinality({i \in 1..Len(levels) : levels[i] = 1})
    IN  When(h1 = 0, <<Issue("missing_h1", "error", "")>>)
        \o When(h1 > 1, <<Issue("multiple_h1", "warning", "")>>)
        \o When(Len(levels) > 0 /\ levels[1] > 1,
                <<Issue("heading_starts_not_h1", "error", "")>>)
        \o Concat([i \in 1..(IF Len(levels) > 0 THEN Len(levels) - 1 ELSE 0) |->
                     When(levels[i + 1] - levels[i] >= 1,
                          <<Issue("heading_jump", "warning", "")>>)])
HeadingIssues(levels) ==
    LET h1 == Cardinality({i \in 1..Len(levels) : levels[i] = 1})
    IN  When(h1 = 0, <<Issue("missing_h1", "error", "")>>)
        \o When(h1 > 1, <<Issue("multiple_h1", "warning", "")>>)
        \o When(Len(levels) > 0 /\ levels[1] > 1,
                <<Issue("heading_starts_not_h1", "error", "")>>)
        \o Concat([i \in 1..(IF Len(levels) > 0 THEN Len(levels) - 1 ELSE 0) |->
                     When(levels[i + 1] - levels[i] > 1,
                          <<Issue("heading_jump", "warning", "")>>)])

\* lines 243-244: const titleText = title ? textContent(title) : ""
TitleText(s) ==
    LET t == FirstIn(HeadTags(s, "<title"))
    IN  IF t = 0 THEN <<>> ELSE textContent(NodeText(s, t, "</title>"))

\* head?.querySelector(sel)?.getAttribute(k)?.trim() || ""
HeadAttr(s, name, a, k) ==
    LET t == FirstIn(HeadTagsWith(s, name, a))
    IN  IF t = 0 THEN <<>> ELSE Trim(GetAttr(s, t, k))

MetaDescContent(s) == HeadAttr(s, "<meta", Attr("name", "description"), "content")

DescMin == 120
DescMax == 160

\* lines 249-255
DescriptionIssues(s) ==
    LET c == MetaDescContent(s)
    IN  IF c = <<>> THEN <<Issue("missing_meta_description", "error", "")>>
        ELSE When(TextLen(c) < DescMin \/ TextLen(c) > DescMax,
                  <<Issue("meta_description_length", "suggestion", "")>>)

\* lines 257-261; the inputs spell the two values "noindex" and "index"
RobotsMetaIssues(s) ==
    LET c == HeadAttr(s, "<meta", Attr("name", "robots"), "content")
    IN  When(\E i \in 1..Len(c) : c[i] \in {"noindex", "nofollow"},
             <<Issue("meta_robots_noindex", "warning", "")>>)

\* lines 263-285
CanonicalTags(s) == HeadTagsWith(s, "<link", Attr("rel", "canonical"))
CanonicalHref(s) ==
    IF CanonicalTags(s) = {} THEN <<>>
    ELSE Trim(GetAttr(s, Min(CanonicalTags(s)), "href"))
CanonicalIssuesAnyHttp(s, url) ==
    LET href == CanonicalHref(s)
    IN  When(Cardinality(CanonicalTags(s)) > 1,
             <<Issue("multiple_canonical", "error", "")>>)
        \o (IF href = <<>> THEN <<Issue("missing_canonical", "error", "")>>
            ELSE When(href[1] \notin Origins,
                      <<Issue("canonical_not_absolute", "error", "")>>)
                 \o When(\E i \in 1..Len(href) : href[i] \in HttpOrigins \cup HttpQueries,
                         <<Issue("canonical_http", "warning", "")>>)
                 \o When(\E i \in 1..Len(href) : IsQuery(href[i]),
                         <<Issue("canonical_has_query", "suggestion", "")>>)
                 \o When(url # NULL /\ href[1] # url,
                         <<Issue("canonical_base_mismatch", "warning", "")>>))
CanonicalIssues(s, url) ==
    LET href == CanonicalHref(s)
    IN  When(Cardinality(CanonicalTags(s)) > 1,
             <<Issue("multiple_canonical", "error", "")>>)
        \o (IF href = <<>> THEN <<Issue("missing_canonical", "error", "")>>
            ELSE When(href[1] \notin Origins,
                      <<Issue("canonical_not_absolute", "error", "")>>)
                 \o When(href[1] \in HttpOrigins,
                         <<Issue("canonical_http", "warning", "")>>)
                 \o When(\E i \in 1..Len(href) : IsQuery(href[i]),
                         <<Issue("canonical_has_query", "suggestion", "")>>)
                 \o When(url # NULL /\ href[1] # url,
                         <<Issue("canonical_base_mismatch", "warning", "")>>))

\* lines 287-302
OgIssue(s, property) ==
    LET t == FirstIn(HeadTagsWith(s, "<meta", Attr("property", property)))
        value == IF t = 0 THEN <<>> ELSE Trim(GetAttr(s, t, "content"))
    IN  IF property = "og:type"
        THEN IF t = 0 THEN <<Issue("missing_og", "warning", property)>>
             ELSE When(value = <<>>, <<Issue("missing_og", "error", property)>>)
        ELSE When(value = <<>>, <<Issue("missing_og", "error", property)>>)
OgIssues(s) == Concat([i \in 1..Len(ogRequired) |-> OgIssue(s, ogRequired[i])])

\* lines 304-312
OgExtraIssues(s) ==
    When(HeadAttr(s, "<meta", Attr("property", "og:locale"), "content") = <<>>,
         <<Issue("missing_og_locale", "suggestion", "")>>)
    \o When(HeadAttr(s, "<meta", Attr("property", "og:site_name"), "content") = <<>>,
            <<Issue("missing_og_site_name", "suggestion", "")>>)

\* lines 314-326
TwitterIssue(s, name) ==
    When(HeadAttr(s, "<meta", Attr("name", name), "content") = <<>>,
         <<Issue("missing_twitter", "warning", name)>>)
TwitterIssues(s) ==
    Concat([i \in 1..Len(twitterRequired) |-> TwitterIssue(s, twitterRequired[i])])
    \o When(HeadAttr(s, "<meta", Attr("name", "twitter:site"), "content") = <<>>,
            <<Issue("missing_twitter_site", "suggestion", "")>>)

genericAlt == {"image", "photo", "picture", "placeholder", "img", "logo", "icon"}

\* lines 328-346, for the <img> opened at i
ImgIssues(s, i) ==
    LET alt == Trim(GetAttr(s, i, "alt"))
    IN  (IF alt = <<>> THEN <<Issue("img_missing_alt", "error", "")>>
         ELSE When(Len(alt) = 1 /\ alt[1] \in genericAlt,
                   <<Issue("img_generic_alt", "suggestion", "")>>))
        \o When(/\ ~(HasAttr(s, i, Attr("width", "10")) /\ HasAttr(s, i, Attr("height", "10")))
                /\ ~HasAttr(s, i, Attr("src", "a.svg")),
                <<Issue("img_missing_dimensions", "suggestion", "")>>)
        \o When(~HasAttr(s, i, Attr("loading", "lazy")),
                <<Issue("img_missing_lazy", "suggestion", "")>>)
AllImgIssues(s) ==
    LET imgs == Ascending(TagsOf(s, "<img"))
    IN  Concat([n \in 1..Len(imgs) |-> ImgIssues(s, imgs[n])])

\* lines 365-370: the internal links, in document order
InternalLinks(html) ==
    LET idx == {i \in 1..Len(html.links) : isInternalHref(html.links[i])}
        ls  == Pick(html.links, idx)
    IN  [i \in 1..Len(ls) |-> normalizePath(ls[i])]

WordsMin == 300
RatioPct == 15
JsonLdWords == 600

\* lines 373-381: html.chars is the length of the visible text, html.markup the
\* length of the normalized HTML outside src; ratio < 0.15
ThinIssues(html) ==
    When(html.words < WordsMin
           \/ 100 * html.chars < RatioPct * (html.markup + TextLen(html.src)),
         <<Issue("thin_content", "warning", "")>>)

\* lines 383-395: the JSON-LD blocks; the text of a block is "{}", an object
\* without @type that validateSchemaObject passes over, or text JSON.parse rejects
JsonLd(s) == {i \in TagsOf(s, "<script") : HasAttr(s, i, Attr("type", "application/ld+json"))}
JsonLdIssues(html) ==
    LET blocks == Ascending(JsonLd(html.src))
    IN  When(html.words >= JsonLdWords /\ blocks = <<>>,
             <<Issue("missing_json_ld", "suggestion", "")>>)
        \o Concat([n \in 1..Len(blocks) |->
                     When(textContent(NodeText(html.src, blocks[n], "</script>")) # <<"{}">>,
                          <<Issue("invalid_json_ld", "error", "")>>)])

\* lines 397-403: link[rel="alternate"][hreflang]
Hreflang(s) ==
    {i \in TagsOf(s, "<link") :
       /\ HasAttr(s, i, Attr("rel", "alternate"))
       /\ HasAttr(s, i, Attr("hreflang", "en")) \/ HasAttr(s, i, Attr("hreflang", "x-default"))}
HreflangIssues(s) ==
    When(Hreflang(s) # {} /\ ~\E i \in Hreflang(s) : HasAttr(s, i, Attr("hreflang", "x-default")),
         <<Issue("missing_hreflang_default", "warning", "")>>)

\* lines 406-411: canonical links and og: metas anywhere in the document
MixedIssues(s) ==
    LET links == {i \in TagsOf(s, "<link") : HasAttr(s, i, Attr("rel", "canonical"))}
        metas == {i \in TagsOf(s, "<meta") :
                    \E k \in 1..Len(ogRequired) : HasAttr(s, i, Attr("property", ogRequired[k]))}
        value(i) == IF GetAttr(s, i, "href") # <<>> THEN GetAttr(s, i, "href")
                    ELSE GetAttr(s, i, "content")
        nodes == Ascending(links \cup metas)
    IN  Concat([n \in 1..Len(nodes) |->
                  When(\E k \in 1..Len(value(nodes[n])) :
                          value(nodes[n])[k] \in HttpOrigins \cup HttpQueries,
                       <<Issue("mixed_content", "warning", "")>>)])

\* lines 413-424: the digest stored in analysisCache
Digest(html, guessed) ==
    [tokens      |-> html.tokens,
     wordCount   |-> html.words,
     internalLinks |-> InternalLinks(html),
     title       |-> normalizeText(TitleText(html.src)),
     description |-> normalizeText(MetaDescContent(html.src)),
     guessedPath |-> guessed]

\* scanHtml(html, fileReport, appUrl): the issues it adds, in the order it adds them
scanHtml(html, url) ==
    HeadingIssues(html.headings)
    \o When(TitleText(html.src) = <<>>, <<Issue("missing_title", "error", "")>>)
    \o DescriptionIssues(html.src)
    \o RobotsMetaIssues(html.src)
    \o CanonicalIssues(html.src, url)
    \o OgIssues(html.src)
    \o OgExtraIssues(html.src)
    \o TwitterIssues(html.src)
    \o AllImgIssues(html.src)
    \o ThinIssues(html)
    \o JsonLdIssues(html)
    \o HreflangIssues(html.src)
    \o MixedIssues(html.src)

(***************************************************************************)
(* applyFixes.  The state threaded through its steps is                    *)
(*   [updated |-> text, fixes |-> fixes_applied, changed |-> BOOLEAN].     *)
(***************************************************************************)
\* lineNumberAt(text, index), index being the offset just after the first n atoms
lineNumberAt(text, n) == 1 + Cardinality({j \in 1..n : IsNl(text[j])})

\* addFix(type, detail, index), evaluated against the text `at`
addFix(st, type, detail, at, n) ==
    Append(st.fixes, [type |-> type, detail |-> detail, line |-> lineNumberAt(at, n)])

\* String.prototype.replace(pattern, replacement) with a string pattern: the first
\* occurrence of pat in m is replaced; the empty pattern occurs at offset 0
ReplaceFirst(m, pat, rep) ==
    LET at == FirstIn({i \in 1..(Len(m) - Len(pat) + 1) :
                         SubSeq(m, i, i + Len(pat) - 1) = pat})
    IN  IF at = 0 THEN m ELSE Splice(m, at, at + Len(pat) - 1, rep)

\* atoms whose text starts with "<head"
StartsWithHead(a) == a \in {"<head", "<header"}

\* lines 435-443: /<head[^>]*>/i, then the snippet goes right after the match
HeadMatch(u) == FirstIn({i \in 1..Len(u) : StartsWithHead(u[i]) /\ FirstGt(u, i) # 0})
insertIntoHead(st, snippet, type, detail) ==
    LET u  == st.updated
        h  == HeadMatch(u)
        e  == FirstGt(u, h)
        nu == Splice(u, e + 1, e, <<NLI>> \o snippet)
    IN  IF h = 0 THEN st
        ELSE [updated |-> nu,
              fixes   |-> addFix(st, type, detail, nu, e),
              changed |-> TRUE]

AltTodo == <<AttrOpen("alt"), "TODO: describe image", Q>>

\* lines 445-452: /<img\b(?![^>]*\balt=)[^>]*>/gi
ImgMatches(u) ==
    {i \in 1..Len(u) :
       /\ u[i] = "<img"
       /\ FirstGt(u, i) # 0
       /\ \A k \in (i + 1)..(FirstGt(u, i) - 1) : u[k] # AttrOpen("alt")}
FixImages(st, list) ==
    LET u  == st.updated
        ms == Ascending(ImgMatches(u))
    IN  IF ~HasType(list, "img_missing_alt") THEN st ELSE
        [updated |-> Concat([i \in 1..Len(u) |->
                               IF i \in ImgMatches(u) THEN <<u[i]>> \o AltTodo ELSE <<u[i]>>]),
         fixes   |-> st.fixes \o [n \in 1..Len(ms) |->
                                    [type |-> "img_alt", detail |-> "Inserted alt placeholder.",
                                     line |-> lineNumberAt(u, ms[n] - 1)]],
         changed |-> st.changed \/ ms # <<>>]

\* /<title\b[^>]*>([\s\S]*?)<\/title>/i: where the match starts, 0 if there is none
TitleClose(u, i) == FirstIn({c \in (FirstGt(u, i) + 1)..Len(u) : u[c] = "</title>"})
TitleMatch(u) ==
    FirstIn({i \in 1..Len(u) : u[i] = "<title" /\ FirstGt(u, i) # 0 /\ TitleClose(u, i) # 0})

\* lines 454-469
FixTitle(st, list) ==
    LET u     == st.updated
        i     == TitleMatch(u)
        c     == TitleClose(u, i)
        match == SubSeq(u, i, c)
        inner == SubSeq(u, FirstGt(u, i) + 1, c - 1)
    IN  IF ~HasType(list, "missing_title") THEN st
        ELSE IF i = 0
        THEN insertIntoHead(st, <<"<title", ">", "TODO", "</title>">>, "title",
                            "Inserted <title> placeholder.")
        ELSE IF Trim(inner) # <<>> THEN st
        ELSE [updated |-> Splice(u, i, c, ReplaceFirst(match, inner, <<"TODO">>)),
              fixes   |-> addFix(st, "title", "Filled empty <title> placeholder.", u, i - 1),
              changed |-> TRUE]

\* new RegExp(`<tag\b[^>]*attr[^>]*>`, "i"): where the match starts, 0 if none;
\* the match ends at the first '>' after its start
TagMatch(u, opener, attr) ==
    FirstIn({i \in 1..Len(u) :
               /\ u[i] = opener
               /\ FirstGt(u, i) # 0
               /\ \E k \in (i + 1)..(FirstGt(u, i) - 1) : u[k] = attr})

\* match.match(/key=["']([^"']*)["']/i): <<start, end>> in m, <<0, 0>> if null
ValueMatch(m, key) ==
    LET closing(k) == FirstIn({q \in (k + 1)..Len(m) : HasQuote(m[q])})
        k0 == FirstIn({k \in 1..Len(m) : m[k] = AttrOpen(key) /\ closing(k) # 0})
    IN  IF k0 = 0 THEN <<0, 0>> ELSE <<k0, closing(k0)>>

\* the callback shared by the meta description, canonical, OpenGraph and Twitter
\* steps (lines 475-486, 496-507, 530-541, 564-575): fill the value of `key` in the
\* first tag matching opener/attr, or insert `snippet` into the head
\* FillMatch without `changed = true` in the callback (line 484)
FillMatchUnflagged(st, i, e, m, vm, key, default, type, filled) ==
    LET full == vm[1] # 0 /\ (m[vm[2]] # Q \/ Trim(SubSeq(m, vm[1] + 1, vm[2] - 1)) # <<>>)
        new  == <<AttrOpen(key)>> \o default \o <<Q>>
        repl == IF vm[1] # 0 THEN Splice(m, vm[1], vm[2], new)
                ELSE Splice(m, 1, 1, <<m[1]>> \o new)
    IN  IF full THEN st
        ELSE [updated |-> Splice(st.updated, i, e, repl),
              fixes   |-> addFix(st, type, filled, st.updated, i - 1),
              changed |-> st.changed]
FillMatch(st, i, e, m, vm, key, default, type, filled) ==
    LET \* contentMatch[1].trim(): a capture that ends inside an atom is not blank
        full == vm[1] # 0 /\ (m[vm[2]] # Q \/ Trim(SubSeq(m, vm[1] + 1, vm[2] - 1)) # <<>>)
        new  == <<AttrOpen(key)>> \o default \o <<Q>>
        repl == IF vm[1] # 0 THEN Splice(m, vm[1], vm[2], new)
                ELSE Splice(m, 1, 1, <<m[1]>> \o new)
    IN  IF full THEN st
        ELSE [updated |-> Splice(st.updated, i, e, repl),
              fixes   |-> addFix(st, type, filled, st.updated, i - 1),
              changed |-> TRUE]
FillTag(st, i, e, key, default, type, filled) ==
    FillMatch(st, i, e, SubSeq(st.updated, i, e), ValueMatch(SubSeq(st.updated, i, e), key),
              key, default, type, filled)
FillOrInsert(st, opener, attr, key, default, type, filled, snippet, inserted) ==
    IF TagMatch(st.updated, opener, attr) = 0
    THEN insertIntoHead(st, snippet, type, inserted)
    ELSE FillTag(st, TagMatch(st.updated, opener, attr),
                 FirstGt(st.updated, TagMatch(st.updated, opener, attr)),
                 key, default, type, filled)

Tag(opener, attr, key, value) == <<opener, attr, AttrOpen(key)>> \o value \o <<Q, ">">>

\* lines 471-490
FixDescription(st, list) ==
    IF ~HasType(list, "missing_meta_description") THEN st ELSE
    FillOrInsert(st, "<meta", Attr("name", "description"), "content", <<"TODO">>,
                 "meta_description", "Filled meta description placeholder.",
                 Tag("<meta", Attr("name", "description"), "content", <<"TODO">>),
                 "Inserted meta description placeholder.")

\* lines 492-511
FixCanonical(st, list) ==
    IF ~HasType(list, "missing_canonical") THEN st ELSE
    FillOrInsert(st, "<link", Attr("rel", "canonical"), "href", CurrentUrl,
                 "canonical", "Filled canonical placeholder.",
                 Tag("<link", Attr("rel", "canonical"), "href", CurrentUrl),
                 "Inserted canonical placeholder.")

\* lines 514-520
ogDefaults(property) ==
    CASE property = "og:url" -> CurrentUrl
      [] property = "og:type" -> <<"website">>
      [] OTHER -> <<"TODO">>
\* lines 549-554
twitterDefaults(name) ==
    IF name = "twitter:card" THEN <<"summary_large_image">> ELSE <<"TODO">>

\* lines 521-525, 555-559: the targets named by the issues of one type
Targets(list, type, all) ==
    LET idx == {i \in 1..Len(list) : list[i].type = type /\ list[i].key # ""}
        named == [n \in 1..Cardinality(idx) |-> Pick(list, idx)[n].key]
    IN  IF ~HasType(list, type) THEN <<>>
        ELSE IF named # <<>> THEN named ELSE all

\* lines 526-545
FixOg(st, property) ==
    FillOrInsert(st, "<meta", Attr("property", property), "content", ogDefaults(property),
                 "opengraph", "Filled " \o property \o " placeholder.",
                 Tag("<meta", Attr("property", property), "content", ogDefaults(property)),
                 "Inserted " \o property \o " placeholder.")
\* lines 560-579
FixTwitter(st, name) ==
    FillOrInsert(st, "<meta", Attr("name", name), "content", twitterDefaults(name),
                 "twitter", "Filled " \o name \o " placeholder.",
                 Tag("<meta", Attr("name", name), "content", twitterDefaults(name)),
                 "Inserted " \o name \o " placeholder.")

RECURSIVE FixOgAll(_, _)
FixOgAll(st, targets) ==
    IF targets = <<>> THEN st ELSE FixOgAll(FixOg(st, Head(targets)), Tail(targets))
RECURSIVE FixTwitterAll(_, _)
FixTwitterAll(st, targets) ==
    IF targets = <<>> THEN st
    ELSE FixTwitterAll(FixTwitter(st, Head(targets)), Tail(targets))

\* applyFixes(filePath, raw, fileReport): the text it ends with, the fixes it
\* records and whether it writes the file
applyFixes(raw, list) ==
    FixTwitterAll(
      FixOgAll(
        FixCanonical(
          FixDescription(
            FixTitle(
              FixImages([updated |-> raw, fixes |-> <<>>, changed |-> FALSE], list),
              list),
            list),
          list),
        Targets(list, "missing_og", ogRequired)),
      Targets(list, "missing_twitter", twitterRequired))

(***************************************************************************)
(* Scorer                                                                  *)
(***************************************************************************)
\* Deduct with the warning deduction added instead of subtracted
DeductSignSlip(score, issue) ==
    IF issue.severity = "error" THEN score - 10
    ELSE IF issue.severity = "warning" THEN score + 5
    ELSE IF issue.severity = "suggestion" THEN score - 2
    ELSE score
\* Deduct with the error and the warning deductions exchanged
DeductSwapped(score, issue) ==
    IF issue.severity = "error" THEN score - 5
    ELSE IF issue.severity = "warning" THEN score - 10
    ELSE IF issue.severity = "suggestion" THEN score - 2
    ELSE score

\* lines 893-897: the loop body
Deduct(score, issue) ==
    LET a == IF issue.severity = "error" THEN score - 10 ELSE score
        b == IF issue.severity = "warning" THEN a - 5 ELSE a
    IN  IF issue.severity = "suggestion" THEN b - 2 ELSE b

RECURSIVE ScoreLoop(_, _, _)
ScoreLoop(list, i, score) ==
    IF i > Len(list) THEN score ELSE ScoreLoop(list, i + 1, Deduct(score, list[i]))

\* lines 891-899
scoreIssues(list) ==
    LET score == ScoreLoop(list, 1, 100)
    IN  Max({0, Min({100, score})})

\* lines 901-903
scoreFile(file) == [file EXCEPT !.score = scoreIssues(file.issues)]

\* Math.round(a / b) for a >= 0, b > 0: halves round up
RoundDiv(a, b) == (2 * a + b) \div (2 * b)

\* scoreProject with Math.floor in place of Math.round
scoreProjectFloor(fs, projectIssues) ==
    LET total == SumRange([i \in 1..Len(fs) |-> fs[i].score], 1, Len(fs))
        base  == IF Len(fs) # 0 THEN total \div Len(fs) ELSE 100
        projectPenalty == 100 - scoreIssues(projectIssues)
    IN  Max({0, Min({100, base - projectPenalty})})

\* lines 905-910
scoreProject(fs, projectIssues) ==
    LET total == SumRange([i \in 1..Len(fs) |-> fs[i].score], 1, Len(fs))
        base  == IF Len(fs) # 0 THEN RoundDiv(total, Len(fs)) ELSE 100
        projectPenalty == 100 - scoreIssues(projectIssues)
    IN  Max({0, Min({100, base - projectPenalty})})

(***************************************************************************)
(* Project aggregator                                                      *)
(***************************************************************************)
\* jaccard with the union taken as the sum of the two sizes
jaccardSumUnion(setA, setB) ==
    IF Cardinality(setA) = 0 \/ Cardinality(setB) = 0 THEN [num |-> 0, den |-> 1]
    ELSE [num |-> Cardinality({v \in setA : v \in setB}),
          den |-> Cardinality(setA) + Cardinality(setB)]

\* lines 881-889: the similarity as the fraction num/den
jaccard(setA, setB) ==
    IF Cardinality(setA) = 0 \/ Cardinality(setB) = 0 THEN [num |-> 0, den |-> 1]
    ELSE LET intersection == Cardinality({v \in setA : v \in setB})
             union == Cardinality(setA) + Cardinality(setB) - intersection
         IN  IF union = 0 THEN [num |-> 0, den |-> 1]
             ELSE [num |-> intersection, den |-> union]

DupWords == 200
SimPct == 85

\* similarity > 0.85
Similar(sim) == 100 * sim.num > SimPct * sim.den
\* Number(similarity.toFixed(2)), in hundredths
Fixed2(sim) == RoundDiv(100 * sim.num, sim.den)

\* analysisCache.get(path): the digest, or a record without data
CacheHas(cache, path) == \E i \in 1..Len(cache) : cache[i].path = path
CacheGet(cache, path) == cache[CHOOSE i \in 1..Len(cache) : cache[i].path = path].data
\* analysisCache.set(path, data): a Map keeps the place of a key it already holds
CacheSet(cache, path, data) ==
    IF CacheHas(cache, path)
    THEN [i \in 1..Len(cache) |->
            IF cache[i].path = path THEN [path |-> path, data |-> data] ELSE cache[i]]
    ELSE Append(cache, [path |-> path, data |-> data])

\* the files that have a digest, in files order (lines 798-800, 827-829)
Known(fs, cache) == Pick(fs, {i \in 1..Len(fs) : CacheHas(cache, fs[i].path)})

\* lines 802-807, 815-825: one Map per field; its keys in insertion order, each
\* with the paths of the files that carry it
GroupKeys(fs, cache, field) ==
    LET ks == [i \in 1..Len(fs) |-> CacheGet(cache, fs[i].path)[field]]
    IN  Pick(ks, {i \in 1..Len(ks) : ks[i] # <<>> /\ \A j \in 1..(i - 1) : ks[j] # ks[i]})
GroupPaths(fs, cache, field, key) ==
    LET members == Pick(fs, {i \in 1..Len(fs) : CacheGet(cache, fs[i].path)[field] = key})
    IN  [i \in 1..Len(members) |-> members[i].path]
DuplicateIssues(fs, cache, field, type) ==
    LET keys == GroupKeys(fs, cache, field)
    IN  Concat([k \in 1..Len(keys) |->
                  When(Len(GroupPaths(fs, cache, field, keys[k])) > 1,
                       <<IssueFiles(type, "warning", GroupPaths(fs, cache, field, keys[k]))>>)])

\* lines 809-812: pathToFile and the keys of inbound, in insertion order
RouteKeys(fs, cache) ==
    LET gs == [i \in 1..Len(fs) |-> CacheGet(cache, fs[i].path).guessedPath]
    IN  Pick(gs, {i \in 1..Len(gs) : gs[i] # <<>> /\ \A j \in 1..(i - 1) : gs[j] # gs[i]})
\* pathToFile.get(route): the last file that set it
PathToFile(fs, cache, route) ==
    fs[Max({i \in 1..Len(fs) : CacheGet(cache, fs[i].path).guessedPath = route})].path
\* lines 827-837: the number of internal links, over all files, that name the route
Inbound(fs, cache, route) ==
    SumRange([i \in 1..Len(fs) |->
                Cardinality({n \in 1..Len(CacheGet(cache, fs[i].path).internalLinks) :
                               /\ CacheGet(cache, fs[i].path).internalLinks[n] # <<>>
                               /\ normalizePath(CacheGet(cache, fs[i].path).internalLinks[n]) = route})],
             1, Len(fs))
Depth(route) == Cardinality({i \in 1..Len(route) : route[i] # "/"})

DeepDepth == 3
DeepInbound == 2

\* lines 839-856: the issues the link graph attaches to the file at `path`
GraphIssues(fs, cache, path) ==
    LET keys == RouteKeys(fs, cache)
        mine(k) == PathToFile(fs, cache, keys[k]) = path
    IN  Concat([k \in 1..Len(keys) |->
                  IF keys[k] = <<"/">> \/ ~mine(k) THEN <<>>
                  ELSE When(Inbound(fs, cache, keys[k]) = 0,
                            <<IssueRoute("orphan_page", "suggestion", keys[k])>>)
                       \o When(Depth(keys[k]) > DeepDepth
                                 /\ Inbound(fs, cache, keys[k]) < DeepInbound,
                               <<IssueRoute("deep_page", "suggestion", keys[k])>>)])

\* NearDuplicate with the threshold included (similarity >= 0.85)
NearDuplicateAtLeast(cache, a, b) ==
    /\ ~(cache[a].data.wordCount < DupWords \/ cache[b].data.wordCount < DupWords)
    /\ 100 * jaccard(cache[a].data.tokens, cache[b].data.tokens).num
         >= SimPct * jaccard(cache[a].data.tokens, cache[b].data.tokens).den

\* lines 858-878: the pair (a, b) of cache entries is a near duplicate
NearDuplicate(cache, a, b) ==
    /\ ~(cache[a].data.wordCount < DupWords \/ cache[b].data.wordCount < DupWords)
    /\ Similar(jaccard(cache[a].data.tokens, cache[b].data.tokens))

\* the duplicate_content issues attached to the cache entry c: the pairs (i, j),
\* i < j, are visited in order, and c takes part as the right or the left member
ContentIssues(cache, c) ==
    Concat([o \in 1..Len(cache) |->
              IF o = c THEN <<>>
              ELSE LET a == IF o < c THEN o ELSE c
                       b == IF o < c THEN c ELSE o
                   IN  When(NearDuplicate(cache, a, b),
                            <<IssueOther("duplicate_content", "warning", cache[o].path,
                                         Fixed2(jaccard(cache[a].data.tokens,
                                                        cache[b].data.tokens)))>>)])

\* files.find((entry) => entry.path === path): the index of the first such file
FindFile(fs, path) == FirstIn({i \in 1..Len(fs) : fs[i].path = path})

\* the issues runProjectWideChecks appends to files[f]
AggregatedIssues(fs, cache, f) ==
    LET known == Known(fs, cache)
    IN  (IF FindFile(fs, fs[f].path) = f /\ CacheHas(cache, fs[f].path)
         THEN GraphIssues(known, cache, fs[f].path) ELSE <<>>)
        \o Concat([c \in 1..Len(cache) |->
                     IF FindFile(fs, cache[c].path) = f THEN ContentIssues(cache, c)
                     ELSE <<>>])

(***************************************************************************)
(* Page loop                                                               *)
(***************************************************************************)
\* lines 610-626: the canonical of a view against the route guessed from its path
LinkCanonical(u) ==
    LET starts == {i \in 1..Len(u) : /\ u[i] = "<link"
                                     /\ FirstGt(u, i) # 0
                                     /\ \E k \in (i + 1)..(FirstGt(u, i) - 2) :
                                           u[k] = Attr("rel", "canonical")}
    IN  IF starts = {} THEN <<>>
        ELSE SubSeq(u, FirstIn(starts), FirstGt(u, FirstIn(starts)))
\* /href=["']([^"']+)["']/ on the matched tag: the first href with a closed,
\* non-empty value
HrefOf(m) ==
    LET opens == {k \in 1..Len(m) : /\ m[k] = AttrOpen("href")
                                    /\ \E c \in (k + 2)..Len(m) :
                                          /\ m[c] = Q
                                          /\ \A j \in (k + 1)..(c - 1) : ~HasQuote(m[j])}
        k == FirstIn(opens)
        c == FirstIn({c \in (k + 2)..Len(m) : m[c] = Q})
    IN  IF opens = {} THEN <<>> ELSE SubSeq(m, k + 1, c - 1)
PathMismatch(cleaned, list, url, guessed) ==
    LET href == HrefOf(LinkCanonical(cleaned))
        actual == IF normalizePath(Tail(href)) = <<>> THEN <<"/">>
                  ELSE normalizePath(Tail(href))
    IN  When(/\ url # NULL
             /\ guessed # <<"/">>
             /\ ~HasType(list, "missing_canonical")
             /\ href # <<>>
             /\ Head(href) = url
             /\ normalizePath(guessed) # actual,
             <<[Issue("canonical_path_mismatch", "suggestion", "") EXCEPT !.route = actual]>>)

\* Number(ratio.toFixed(3)), in thousandths (lines 72-75, 376-378)
RatioOf(html) ==
    LET len == html.markup + TextLen(html.src)
    IN  IF len = 0 THEN 0 ELSE RoundDiv(1000 * html.chars, len)
Stats(html) ==
    [h1_count |-> Cardinality({i \in 1..Len(html.headings) : html.headings[i] = 1}),
     word_count |-> html.words,
     text_html_ratio |-> RatioOf(html)]

\* the fileReport of lines 595-606 and 651-662 after scanHtml has run
FileReport(path, html, url, guessed) ==
    [path |-> path, score |-> 100, issues |-> scanHtml(html, url), stats |-> Stats(html),
     fixes_applied |-> <<>>, guessed_path |-> guessed]

(***************************************************************************)
(* Technical artifacts: robots.txt, sitemaps, routes                       *)
(***************************************************************************)
\* A robots.txt is the list of its lines, a line the list of its atoms:
\* "User-agent:", "Disallow:", "Sitemap:", " ", "*", a path or a URL's pieces.
ProjectIssue(type, severity) == Issue(type, severity, "")
IsBlank(line) == \A k \in 1..Len(line) : IsSpace(line[k])
\* the first atom after position k of the line that is not white space
NextInLine(line, k) ==
    LET rest == {j \in (k + 1)..Len(line) : ~IsSpace(line[j])}
    IN  IF rest = {} THEN "" ELSE line[FirstIn(rest)]
LineHas(line, word, next(_)) ==
    \E k \in 1..Len(line) : line[k] = word /\ next(NextInLine(line, k))
IsStar(a) == a = "*"
IsSlash(a) == a = "/"
\* raw.split(/\n\s*\n/): line i belongs to the block that starts after the last
\* blank line before it
BlockOf(lines, i) == LastIn({j \in 1..i : IsBlank(lines[j])})
BlockStarts(lines) ==
    Ascending({BlockOf(lines, i) : i \in {j \in 1..Len(lines) : ~IsBlank(lines[j])}})
\* lines 695-701
BlockDisallowsAll(lines, b) ==
    LET mine == {i \in 1..Len(lines) : ~IsBlank(lines[i]) /\ BlockOf(lines, i) = b}
    IN  /\ \E i \in mine : LineHas(lines[i], "User-agent:", IsStar)
        /\ \E i \in mine : LineHas(lines[i], "Disallow:", IsSlash)
\* raw.match(/Sitemap:\s*(\S+)/i): the first atom of the captured value, "" when
\* nothing but white space follows the first "Sitemap:"
SitemapValue(lines) ==
    LET flat == Concat(lines)
        at == FirstIn({k \in 1..Len(flat) : flat[k] = "Sitemap:"})
    IN  IF at = 0 THEN "" ELSE NextInLine(flat, at)
HasWord(lines, word) == \E i \in 1..Len(lines) : \E k \in 1..Len(lines[i]) : lines[i][k] = word

\* the placeholder robots.txt with "Disallow: /" instead of an empty Disallow
RobotsPlaceholderClosed(url) ==
    << <<"User-agent:", " ", "*">>, <<"Disallow:", " ", "/">>, <<>>,
       <<"Sitemap:", " ">> \o (IF url # NULL THEN <<url, "/", "sitemap.xml">> ELSE <<"TODO">>) >>
\* line 680: the placeholder robots.txt
RobotsPlaceholder(url) ==
    << <<"User-agent:", " ", "*">>, <<"Disallow:">>, <<>>,
       <<"Sitemap:", " ">> \o (IF url # NULL THEN <<url, "/", "sitemap.xml">> ELSE <<"TODO">>) >>

\* lines 687-708: the issues for an existing robots.txt
RobotsIssues(lines, url) ==
    LET bs == BlockStarts(lines)
    IN  When(~HasWord(lines, "User-agent:"),
             <<ProjectIssue("robots_missing_user_agent", "error")>>)
        \o When(~HasWord(lines, "Sitemap:"),
                <<ProjectIssue("robots_missing_sitemap", "warning")>>)
        \o Concat([b \in 1..Len(bs) |->
                     When(BlockDisallowsAll(lines, bs[b]),
                          <<ProjectIssue("robots_disallow_all", "warning")>>)])
        \o When(url # NULL /\ SitemapValue(lines) # "" /\ SitemapValue(lines) # url,
                <<ProjectIssue("robots_sitemap_mismatch", "warning")>>)

\* lines 740-764: the issues for one <url> entry
EntryIssues(e, url) ==
    When(e.loc = <<>>, <<ProjectIssue("sitemap_missing_loc", "error")>>)
    \o When(e.loc # <<>> /\ url # NULL /\ Head(e.loc) # url,
            <<ProjectIssue("sitemap_loc_mismatch", "warning")>>)
    \o When(~e.lastmod, <<ProjectIssue("sitemap_missing_lastmod", "suggestion")>>)
    \o When(~e.changefreq, <<ProjectIssue("sitemap_missing_changefreq", "suggestion")>>)
    \o When(~e.priority, <<ProjectIssue("sitemap_missing_priority", "suggestion")>>)
\* lines 726-765: the issues for one sitemap file
SitemapFileIssues(f, url) ==
    IF ~f.readable THEN <<>>
    ELSE IF f.throws THEN <<ProjectIssue("invalid_sitemap_xml", "error")>>
    ELSE Concat([n \in 1..Len(f.urls) |-> EntryIssues(f.urls[n], url)])
\* lines 725-775
SitemapIssues(entries, url) ==
    Concat([n \in 1..Len(entries) |-> SitemapFileIssues(entries[n], url)])
    \o When(Len(entries) > 1 /\ ~\E n \in 1..Len(entries) : entries[n].index,
            <<ProjectIssue("missing_sitemap_index", "warning")>>)
\* line 718: the placeholder sitemap.xml
SitemapPlaceholder(url) ==
    [name |-> "sitemap.xml", index |-> FALSE, readable |-> TRUE, throws |-> FALSE,
     urls |-> <<[loc |-> IF url # NULL THEN <<url, "/">> ELSE <<"TODO">>,
                 lastmod |-> TRUE, changefreq |-> TRUE, priority |-> TRUE]>>]

\* lines 130-145: a declaration is [kind, route, code301]; a route is its atoms
IsStatic(route) == \A k \in 1..Len(route) : route[k] # "{id}"
WithSlash(route) == IF Head(route) = "/" THEN route ELSE <<"/">> \o route
\* extractStaticRoutes collecting into an array instead of a Set
extractStaticRoutesList ==
    IF ~routesFile.exists \/ routesFile.decls = <<>> THEN <<>>
    ELSE LET ds == routesFile.decls
             found == Pick(ds, {i \in 1..Len(ds) : /\ ds[i].kind \in {"get", "view", "any"}
                                                   /\ ds[i].route # <<>>
                                                   /\ IsStatic(ds[i].route)})
         IN  [i \in 1..Len(found) |-> WithSlash(found[i].route)] \o << <<"/">> >>
extractStaticRoutes ==
    IF ~routesFile.exists \/ routesFile.decls = <<>> THEN <<>>
    ELSE LET ds == routesFile.decls
             found == Pick(ds, {i \in 1..Len(ds) : /\ ds[i].kind \in {"get", "view", "any"}
                                                   /\ ds[i].route # <<>>
                                                   /\ IsStatic(ds[i].route)})
             rs == [i \in 1..Len(found) |-> WithSlash(found[i].route)] \o << <<"/">> >>
         IN  Pick(rs, {i \in 1..Len(rs) : \A j \in 1..(i - 1) : rs[j] # rs[i]})
\* lines 784-789
RouteIssues ==
    IF ~routesFile.exists THEN <<>>
    ELSE LET ds == routesFile.decls
         IN  Concat([i \in 1..Len(ds) |->
                       When(ds[i].kind = "redirect" /\ ~ds[i].code301,
                            <<ProjectIssue("redirect_not_301", "suggestion")>>)])

(***************************************************************************)
(* run(): one action per step of lines 912-950.  pc names the next step.   *)
(***************************************************************************)
\* timers counts the pending setTimeout handles of scanHttpPages, attempts lists
\* the fetches that have settled
NoHist == [analysed |-> 0, aggregations |-> 0, scored |-> FALSE,
           timers |-> 0, attempts |-> <<>>]

\* lines 912-917, 639: the arguments are read and the page loop gets its work
\* list: the routes of routes/web.php, or the templates in walk() order
\* Start without the `!appUrl` guard of line 636: routes are fetched without a base URL
StartUnguarded ==
    /\ pc = "start"
    /\ queue' = IF useHttp THEN extractStaticRoutes
                ELSE [i \in 1..Len(views) |-> views[i].path]
    /\ pc' = "pages"
    /\ UNCHANGED <<fixMode, useHttp, appUrl, views, publicDir, robots, sitemaps, routesFile,
                   files, issues, analysisCache, report, pass, history, hist, input, output>>
Start ==
    /\ pc = "start"
    /\ queue' = IF useHttp
                THEN (IF appUrl = NULL THEN <<>> ELSE extractStaticRoutes)
                ELSE [i \in 1..Len(views) |-> views[i].path]
    /\ pc' = "pages"
    /\ UNCHANGED <<fixMode, useHttp, appUrl, views, publicDir, robots, sitemaps, routesFile,
                   files, issues, analysisCache, report, pass, history, hist, input, output>>

\* lines 593-630: the file report, the digest and the outcome of applyFixes for
\* one readable template
WithMismatch(scanned, cleaned, url) ==
    [scanned EXCEPT !.issues = @ \o PathMismatch(cleaned.src, @, url, scanned.guessed_path)]
\* WithFixes that takes the fixable issues out of the report once a fix was applied
WithFixesCleared(scanned, raw, fm) ==
    LET fix  == applyFixes(raw, scanned.issues)
        kept == {k \in 1..Len(scanned.issues) :
                   scanned.issues[k].type \notin
                     {"img_missing_alt", "missing_title", "missing_meta_description",
                      "missing_canonical", "missing_og", "missing_twitter"}}
    IN  IF fm THEN [file |-> [scanned EXCEPT
                                !.fixes_applied = fix.fixes,
                                !.issues = IF fix.fixes = <<>> THEN @ ELSE Pick(@, kept)],
                    fix |-> fix]
        ELSE [file |-> scanned, fix |-> [updated |-> raw, fixes |-> <<>>, changed |-> FALSE]]
WithFixes(scanned, raw, fm) ==
    IF fm THEN [file |-> [scanned EXCEPT !.fixes_applied = applyFixes(raw, scanned.issues).fixes],
                fix |-> applyFixes(raw, scanned.issues)]
    ELSE [file |-> scanned, fix |-> [updated |-> raw, fixes |-> <<>>, changed |-> FALSE]]
Cleaned(html) == [html EXCEPT !.src = stripBlade(html.src)]
scanBladeFile(filePath, html, url, fm) ==
    WithFixes(WithMismatch(FileReport(filePath, Cleaned(html), url, guessPath(filePath)),
                           Cleaned(html), url),
              html.src, fm)
\* lines 582-584 and 632, and the digest scanHtml stored (lines 417-424)
StoreScan(v, r, digest) ==
    /\ views' = IF r.fix.changed THEN [views EXCEPT ![v].html.src = r.fix.updated] ELSE views
    /\ files' = Append(files, r.file)
    /\ analysisCache' = CacheSet(analysisCache, r.file.path, digest)
    /\ hist' = [hist EXCEPT !.analysed = @ + 1]

\* ScanBladeFile with readFileSafe returning "" instead of null for a file that
\* cannot be read: the template is analysed as an empty page
ScanBladeFileBlank ==
    /\ pc = "pages" /\ ~useHttp /\ queue # <<>>
    /\ LET v == FirstIn({i \in 1..Len(views) : views[i].path = Head(queue)})
           html == IF views[v].readable THEN views[v].html
                   ELSE [views[v].html EXCEPT !.src = <<>>]
       IN  StoreScan(v, scanBladeFile(views[v].path, html, appUrl, fixMode),
                     Digest(Cleaned(html), guessPath(views[v].path)))
    /\ queue' = Tail(queue)
    /\ UNCHANGED <<pc, fixMode, useHttp, appUrl, publicDir, robots, sitemaps, routesFile,
                   issues, report, pass, history, input, output>>

\* lines 587-633, one template of the walk of lines 918-928
ScanBladeFile ==
    /\ pc = "pages" /\ ~useHttp /\ queue # <<>>
    /\ LET v == FirstIn({i \in 1..Len(views) : views[i].path = Head(queue)})
       IN  IF ~views[v].readable
           THEN UNCHANGED <<views, files, analysisCache, hist>>
           ELSE StoreScan(v, scanBladeFile(views[v].path, views[v].html, appUrl, fixMode),
                          Digest(Cleaned(views[v].html), guessPath(views[v].path)))
    /\ queue' = Tail(queue)
    /\ UNCHANGED <<pc, fixMode, useHttp, appUrl, publicDir, robots, sitemaps, routesFile,
                   issues, report, pass, history, input, output>>

\* lines 641-670, one route: the response is not OK, or fetch/text() throws (the
\* timer aborts the request, the server is away), or the page is analysed
FetchPage(served) ==
    /\ pc = "pages" /\ useHttp /\ queue # <<>>
    /\ \E outcome \in {"ok", "not ok", "throws"} :
         IF outcome # "ok"
         THEN UNCHANGED <<files, analysisCache, hist>>
         ELSE \E html \in served :
                LET route == Head(queue)
                    url == <<appUrl>> \o route
                IN  /\ files' = Append(files, FileReport(url, html, appUrl, route))
                    /\ analysisCache' = CacheSet(analysisCache, url, Digest(html, route))
                    /\ hist' = [hist EXCEPT !.analysed = @ + 1]
    /\ queue' = Tail(queue)
    /\ UNCHANGED <<pc, fixMode, useHttp, appUrl, views, publicDir, robots, sitemaps,
                   routesFile, issues, report, pass, history, input, output>>

\* scanHttpPages in the two steps the await of line 646 divides it into.
\* lines 641-646: the timer is armed and the request is sent
BeginFetch ==
    /\ pc = "pages" /\ useHttp /\ queue # <<>>
    /\ hist' = [hist EXCEPT !.timers = @ + 1]
    /\ pc' = "fetching"
    /\ UNCHANGED <<fixMode, useHttp, appUrl, views, publicDir, robots, sitemaps, routesFile,
                   queue, files, issues, analysisCache, report, pass, history, input, output>>

\* SettleFetch without try/catch/finally: a rejected fetch ends run()
SettleFetchUncaught(served) ==
    /\ pc = "fetching"
    /\ \E outcome \in {"ok", "not ok", "throws"} :
         /\ IF outcome # "ok"
            THEN UNCHANGED <<files, analysisCache>>
            ELSE \E html \in served :
                   /\ files' = Append(files, FileReport(<<appUrl>> \o Head(queue), html, appUrl,
                                                        Head(queue)))
                   /\ analysisCache' = CacheSet(analysisCache, <<appUrl>> \o Head(queue),
                                                Digest(html, Head(queue)))
         /\ hist' = [hist EXCEPT !.analysed = IF outcome = "ok" THEN @ + 1 ELSE @,
                                 !.timers = IF outcome = "throws" THEN @ ELSE @ - 1,
                                 !.attempts = Append(@, [route |-> Head(queue),
                                                         outcome |-> outcome])]
         /\ queue' = Tail(queue)
         /\ pc' = IF outcome = "throws" THEN "crashed" ELSE "pages"
    /\ UNCHANGED <<fixMode, useHttp, appUrl, views, publicDir, robots, sitemaps,
                   routesFile, issues, report, pass, history, input, output>>

\* lines 646-669: the request settles.  The response is not OK (continue), or
\* fetch or text() rejects, as it does when the timer aborts the request or the
\* server is away (catch, continue), or the page is analysed; the finally block
\* clears the timer on each of the three ways out
SettleFetch(served) ==
    /\ pc = "fetching"
    /\ \E outcome \in {"ok", "not ok", "throws"} :
         /\ IF outcome # "ok"
            THEN UNCHANGED <<files, analysisCache>>
            ELSE \E html \in served :
                   /\ files' = Append(files, FileReport(<<appUrl>> \o Head(queue), html, appUrl,
                                                        Head(queue)))
                   /\ analysisCache' = CacheSet(analysisCache, <<appUrl>> \o Head(queue),
                                                Digest(html, Head(queue)))
         /\ hist' = [hist EXCEPT !.analysed = IF outcome = "ok" THEN @ + 1 ELSE @,
                                 !.timers = @ - 1,
                                 !.attempts = Append(@, [route |-> Head(queue),
                                                         outcome |-> outcome])]
         /\ queue' = Tail(queue)
         /\ pc' = "pages"
    /\ UNCHANGED <<fixMode, useHttp, appUrl, views, publicDir, robots, sitemaps,
                   routesFile, issues, report, pass, history, input, output>>

\* ScanRobots entered without waiting for the page loop to return
ScanRobotsEarly ==
    /\ pc = "pages"
    /\ issues' = issues \o (IF publicDir /\ robots.exists
                             THEN RobotsIssues(robots.lines, appUrl)
                             ELSE <<ProjectIssue("missing_robots", "error")>>)
    /\ pc' = "sitemaps"
    /\ UNCHANGED <<fixMode, useHttp, appUrl, views, publicDir, robots, sitemaps, routesFile,
                   queue, files, analysisCache, report, pass, history, hist, input, output>>

\* lines 673-709, after the page loop has returned; writeFileSafe throws when
\* public/ does not exist, which ends run() without a report
ScanRobots ==
    /\ pc = "pages" /\ queue = <<>>
    /\ IF ~(publicDir /\ robots.exists)
       THEN /\ issues' = issues \o <<ProjectIssue("missing_robots", "error")>>
                         \o When(fixMode /\ publicDir,
                                 <<ProjectIssue("robots_created", "suggestion")>>)
            /\ robots' = IF fixMode /\ publicDir
                         THEN [exists |-> TRUE, lines |-> RobotsPlaceholder(appUrl)]
                         ELSE robots
            /\ pc' = IF fixMode /\ ~publicDir THEN "crashed" ELSE "sitemaps"
       ELSE /\ issues' = issues \o RobotsIssues(robots.lines, appUrl)
            /\ robots' = robots
            /\ pc' = "sitemaps"
    /\ UNCHANGED <<fixMode, useHttp, appUrl, views, publicDir, sitemaps, routesFile, queue,
                   files, analysisCache, report, pass, history, hist, input, output>>

\* lines 711-776
ScanSitemaps ==
    /\ pc = "sitemaps"
    /\ IF ~publicDir \/ sitemaps = <<>>
       THEN /\ issues' = issues \o <<ProjectIssue("missing_sitemap", "error")>>
                         \o When(fixMode /\ publicDir,
                                 <<ProjectIssue("sitemap_created", "suggestion")>>)
            /\ sitemaps' = IF fixMode /\ publicDir THEN <<SitemapPlaceholder(appUrl)>>
                           ELSE sitemaps
            /\ pc' = IF fixMode /\ ~publicDir THEN "crashed" ELSE "routes"
       ELSE /\ issues' = issues \o SitemapIssues(sitemaps, appUrl)
            /\ sitemaps' = sitemaps
            /\ pc' = "routes"
    /\ UNCHANGED <<fixMode, useHttp, appUrl, views, publicDir, robots, routesFile, queue,
                   files, analysisCache, report, pass, history, hist, input, output>>

\* lines 778-790
ScanRoutes ==
    /\ pc = "routes"
    /\ issues' = issues \o RouteIssues
    /\ pc' = "aggregate"
    /\ UNCHANGED <<fixMode, useHttp, appUrl, views, publicDir, robots, sitemaps, routesFile,
                   queue, files, analysisCache, report, pass, history, hist, input, output>>

\* lines 792-879
RunProjectWideChecks ==
    /\ pc = "aggregate"
    /\ LET known == Known(files, analysisCache)
       IN  issues' = issues
                     \o DuplicateIssues(known, analysisCache, "title", "duplicate_title")
                     \o DuplicateIssues(known, analysisCache, "description",
                                        "duplicate_meta_description")
    /\ files' = [f \in 1..Len(files) |->
                   [files[f] EXCEPT !.issues = @ \o AggregatedIssues(files, analysisCache, f)]]
    /\ hist' = [hist EXCEPT !.aggregations = @ + 1]
    /\ pc' = "score"
    /\ UNCHANGED <<fixMode, useHttp, appUrl, views, publicDir, robots, sitemaps, routesFile,
                   queue, analysisCache, report, pass, history, input, output>>

\* ScoreFiles with lines 935 and 936 exchanged: the files are scored before the
\* aggregator runs, and nothing is scored after it
ScoreFilesEarly ==
    \/ /\ pc = "aggregate" /\ ~hist.scored
       /\ files' = [f \in 1..Len(files) |-> scoreFile(files[f])]
       /\ hist' = [hist EXCEPT !.scored = TRUE]
       /\ UNCHANGED <<pc, fixMode, useHttp, appUrl, views, publicDir, robots, sitemaps,
                      routesFile, queue, issues, analysisCache, report, pass, history,
                      input, output>>
    \/ /\ pc = "score"
       /\ pc' = "report"
       /\ UNCHANGED <<fixMode, useHttp, appUrl, views, publicDir, robots, sitemaps, routesFile,
                      queue, files, issues, analysisCache, report, pass, history, hist,
                      input, output>>

\* line 936: files.forEach(scoreFile)
ScoreFiles ==
    /\ pc = "score"
    /\ files' = [f \in 1..Len(files) |-> scoreFile(files[f])]
    /\ hist' = [hist EXCEPT !.scored = TRUE]
    /\ pc' = "report"
    /\ UNCHANGED <<fixMode, useHttp, appUrl, views, publicDir, robots, sitemaps, routesFile,
                   queue, issues, analysisCache, report, pass, history, input, output>>

\* lines 938-947
Report ==
    [summary |->
       [files_scanned |-> Len(files),
        files_with_issues |-> Cardinality({f \in 1..Len(files) : Len(files[f].issues) > 0}),
        total_issues |-> SumRange([f \in 1..Len(files) |-> Len(files[f].issues)],
                                  1, Len(files)) + Len(issues),
        project_score |-> scoreProject(files, issues)],
     files |-> files,
     project_issues |-> issues]

\* lines 938-949
EmitReport ==
    /\ pc = "report"
    /\ report' = <<Report>>
    /\ history' = Append(history, [report |-> Report, views |-> views])
    /\ pc' = "done"
    /\ UNCHANGED <<fixMode, useHttp, appUrl, views, publicDir, robots, sitemaps, routesFile,
                   queue, files, issues, analysisCache, pass, input, output>>
    /\ UNCHANGED hist

\* the command is run again on the project the previous run left: a new process,
\* whose module-level files, issues and analysisCache (lines 21-23) start empty
Rerun(maxPasses) ==
    /\ pc = "done" /\ pass < maxPasses
    /\ pass' = pass + 1
    /\ pc' = "start"
    /\ queue' = <<>> /\ files' = <<>> /\ issues' = <<>> /\ analysisCache' = <<>>
    /\ report' = <<>> /\ hist' = NoHist
    /\ UNCHANGED <<fixMode, useHttp, appUrl, views, publicDir, robots, sitemaps, routesFile,
                   history, input, output>>

(***************************************************************************)
(* The pure functions on their own.  The run() variables are parked.       *)
(***************************************************************************)
Parked(label) ==
    /\ pc = label /\ fixMode = FALSE /\ useHttp = FALSE /\ appUrl = NULL
    /\ views = <<>> /\ publicDir = FALSE
    /\ robots = [exists |-> FALSE, lines |-> <<>>]
    /\ sitemaps = <<>> /\ routesFile = [exists |-> FALSE, decls |-> <<>>]
    /\ queue = <<>> /\ files = <<>> /\ issues = <<>> /\ analysisCache = <<>>
    /\ report = <<>> /\ pass = 1 /\ history = <<>> /\ hist = NoHist

Severities == {"error", "warning", "suggestion"}
MaxIssues == 11

\* scoreIssues on a list that grows by one issue at a time
InitScore == Parked("scoreIssues") /\ input = <<>> /\ output = scoreIssues(<<>>)
AddIssue ==
    /\ pc = "scoreIssues" /\ Len(input) < MaxIssues
    /\ \E sev \in Severities :
         /\ input' = Append(input, ProjectIssue("issue", sev))
         /\ output' = scoreIssues(input')
    /\ UNCHANGED runVars
NextScore == AddIssue
SpecScore == InitScore /\ [][NextScore]_vars

Count(list, sev) == Cardinality({i \in 1..Len(list) : list[i].severity = sev})
Clamp(x, lo, hi) == IF x < lo THEN lo ELSE IF x > hi THEN hi ELSE x

\* C3: for every issue list L, scoreIssues(L) lies in [0,100]; the score of the
\* empty list is 100; appending an issue to L never increases the score.
C3_ScoreBoundedMonotone ==
    /\ [](output \in 0..100 /\ (input = <<>> => output = 100))
    /\ [][Len(input') = Len(input) + 1 => output' <= output]_vars
\* a list long enough to reach the lower clamp, holding warnings
C3_Witness ==
    /\ pc = "scoreIssues" /\ Len(input) = MaxIssues /\ output = 0
    /\ Count(input, "warning") > 0

\* C4: scoreIssues(L) = clamp(100 - 10*errors - 5*warnings - 2*suggestions, 0, 100),
\* the deductions summed first and clamped once.
C4_ScoreFormula ==
    output = Clamp(100 - 10 * Count(input, "error") - 5 * Count(input, "warning")
                       - 2 * Count(input, "suggestion"), 0, 100)
\* a list with all three severities, still above the clamp
C4_Witness ==
    /\ pc = "scoreIssues" /\ output = 66
    /\ Count(input, "error") = 2 /\ Count(input, "warning") = 2
    /\ Count(input, "suggestion") = 2

\* scoreProject on a list of scored files and a list of project issues, both
\* growing by one element at a time
PageScores == {0, 33, 50, 85, 100}
MaxFiles == 3
MaxProjectIssues == 3
ScoredFiles(scores) == [i \in 1..Len(scores) |-> [score |-> scores[i]]]
InitProject ==
    /\ Parked("scoreProject")
    /\ input = [scores |-> <<>>, issues |-> <<>>]
    /\ output = scoreProject(<<>>, <<>>)
AddFile ==
    /\ pc = "scoreProject" /\ Len(input.scores) < MaxFiles
    /\ \E sc \in PageScores :
         /\ input' = [input EXCEPT !.scores = Append(@, sc)]
         /\ output' = scoreProject(ScoredFiles(input'.scores), input'.issues)
    /\ UNCHANGED runVars
AddProjectIssue ==
    /\ pc = "scoreProject" /\ Len(input.issues) < MaxProjectIssues
    /\ \E sev \in Severities :
         /\ input' = [input EXCEPT !.issues = Append(@, ProjectIssue("issue", sev))]
         /\ output' = scoreProject(ScoredFiles(input'.scores), input'.issues)
    /\ UNCHANGED runVars
NextProject == AddFile \/ AddProjectIssue
SpecProject == InitProject /\ [][NextProject]_vars

Total(scores) == SumRange(scores, 1, Len(scores))
\* the mean of the scores rounded to the nearest integer, halves upwards
RoundedMean(scores) ==
    CHOOSE r \in 0..100 : /\ (2 * r - 1) * Len(scores) <= 2 * Total(scores)
                          /\ 2 * Total(scores) < (2 * r + 1) * Len(scores)

\* C5: the project score is clamp(round(mean of the page scores) - (100 -
\* scoreIssues(project issues)), 0, 100); it lies in [0,100] and never exceeds the
\* rounded mean of the page scores.  (Without pages there is no mean; the score
\* still lies in [0,100].)
C5_ProjectScore ==
    /\ output \in 0..100
    /\ Len(input.scores) > 0 =>
         /\ output = Clamp(RoundedMean(input.scores) - (100 - scoreIssues(input.issues)),
                           0, 100)
         /\ output <= RoundedMean(input.scores)
\* two pages whose mean ends in .5, with a project penalty that leaves a positive score
C5_Witness ==
    /\ pc = "scoreProject" /\ input.scores = <<0, 85>>
    /\ Len(input.issues) = 2 /\ output = 43 - (100 - scoreIssues(input.issues))
    /\ output > 0

\* jaccard on two token sets that grow by one token at a time; output holds the
\* function's value on (a, b), on (b, a) and on (a, a)
MaxTokens == 4
Compare(a, b) == [ab |-> jaccard(a, b), ba |-> jaccard(b, a), aa |-> jaccard(a, a)]
InitJaccard ==
    /\ Parked("jaccard")
    /\ input = [a |-> {}, b |-> {}]
    /\ output = Compare({}, {})
AddTokenA ==
    /\ pc = "jaccard"
    /\ \E t \in (1..MaxTokens) \ input.a :
         /\ input' = [input EXCEPT !.a = @ \cup {t}]
         /\ output' = Compare(input'.a, input'.b)
    /\ UNCHANGED runVars
AddTokenB ==
    /\ pc = "jaccard"
    /\ \E t \in (1..MaxTokens) \ input.b :
         /\ input' = [input EXCEPT !.b = @ \cup {t}]
         /\ output' = Compare(input'.a, input'.b)
    /\ UNCHANGED runVars
NextJaccard == AddTokenA \/ AddTokenB
SpecJaccard == InitJaccard /\ [][NextJaccard]_vars

\* C9: jaccard(A,B) = jaccard(B,A); the value is |A \cap B| / |A \cup B| and lies
\* in [0,1]; it is 0 when A or B is empty; jaccard(A,A) = 1 for nonempty A.
C9_Jaccard ==
    LET A == input.a
        B == input.b
    IN  /\ output.ab.num * output.ba.den = output.ba.num * output.ab.den
        /\ output.ab.den > 0
        /\ (A \cup B # {}) =>
             output.ab.num * Cardinality(A \cup B) = Cardinality(A \cap B) * output.ab.den
        /\ 0 <= output.ab.num /\ output.ab.num <= output.ab.den
        /\ (A = {} \/ B = {}) => output.ab.num = 0
        /\ A # {} => output.aa.num = output.aa.den
\* two overlapping sets, neither inside the other
C9_Witness ==
    /\ pc = "jaccard" /\ input.a \cap input.b # {}
    /\ input.a \ input.b # {} /\ input.b \ input.a # {}
    /\ output.ab.num > 0 /\ output.ab.num < output.ab.den

(***************************************************************************)
(* Projects the runs start from                                            *)
(***************************************************************************)
TitleEl(text) == <<"<title", ">">> \o text \o <<"</title>">>
HeadEl(parts) == <<"<head", ">", NLI>> \o parts \o <<NL, "</head>">>
BodyEl(parts) == <<NL, "<body", ">">> \o parts \o <<"</body>">>
ImgEl(attrs) == <<"<img", Attr("src", "a.png")>> \o attrs \o <<">">>
\* a page: the markup, and the body text the parser reports for it
Page(src, words, tokens, links) ==
    [src |-> src, headings |-> <<1>>, words |-> words, chars |-> 6 * words,
     markup |-> 1000, tokens |-> tokens, links |-> links]

\* the templates under resources/views in the order walk() meets them: readdirSync
\* lists a directory in name order and walk() descends into "a" before it reads
\* "index.blade.php"
ViewPaths == << <<"a", "b", "c", "d", "index">>, <<"a", "index">>, <<"index">>,
                <<"news">>, <<"team">> >>
RouteNames == <<"a", "b", "c", "d", "e">>
MaxPages == 3

\* routes/web.php: static GET routes with and without the leading "/", a route with
\* a parameter, a POST route and two redirects
Decl(kind, route, code301) == [kind |-> kind, route |-> route, code301 |-> code301]
RouteDecls ==
    [i \in 1..(MaxPages - 1) |->
       Decl("get", IF i % 2 = 1 THEN <<"/", RouteNames[i]>> ELSE <<RouteNames[i]>>, FALSE)]
    \o <<Decl("get", <<"/", "user", "/", "{id}">>, FALSE),
         Decl("post", <<"/", "save">>, FALSE),
         Decl("redirect", <<"/", "old">>, FALSE),
         Decl("redirect", <<"/", "older">>, TRUE),
         Decl("view", <<"/", RouteNames[1]>>, FALSE)>>

Site == "https://a.test"
RobotsPool ==
    {[exists |-> FALSE, lines |-> <<>>],
     [exists |-> TRUE, lines |-> RobotsPlaceholder(Site)],
     [exists |-> TRUE, lines |-> << <<"User-agent:", " ", "*">>, <<"Disallow:", " ", "/">> >>]}
UrlEntry(loc, full) ==
    [loc |-> loc, lastmod |-> full, changefreq |-> full, priority |-> TRUE]
SitemapFile(name, urls) ==
    [name |-> name, index |-> name = "sitemap-index.xml", readable |-> TRUE,
     throws |-> FALSE, urls |-> urls]
SitemapPool ==
    {<<>>,
     <<SitemapPlaceholder(Site)>>,
     <<SitemapFile("sitemap-a.xml", <<UrlEntry(<<"https://b.test", "/">>, FALSE)>>),
       SitemapFile("sitemap-b.xml", <<UrlEntry(<<>>, TRUE)>>)>>}

\* the state a run starts from, the project being the environment e
Project(e) ==
    /\ pc = "start" /\ pass = 1
    /\ fixMode = e.fixMode /\ useHttp = e.useHttp /\ appUrl = e.appUrl
    /\ views = e.views /\ publicDir = e.publicDir
    /\ robots = (IF e.publicDir THEN e.robots ELSE [exists |-> FALSE, lines |-> <<>>])
    /\ sitemaps = (IF e.publicDir THEN e.sitemaps ELSE <<>>)
    /\ routesFile = [exists |-> TRUE, decls |-> RouteDecls]
    /\ queue = <<>> /\ files = <<>> /\ issues = <<>> /\ analysisCache = <<>>
    /\ report = <<>> /\ history = <<>> /\ hist = NoHist
    /\ input = <<>> /\ output = <<>>
View(path, readable, html) == [path |-> path, readable |-> readable, html |-> html]

\* two pages for the driver: a near-empty one that links to /a, and a long one
\* with a complete head
SparseSrc == HeadEl(TitleEl(<<>>)) \o BodyEl(ImgEl(<<>>))
FullSrc ==
    HeadEl(TitleEl(<<"A">>)
           \o Tag("<meta", Attr("name", "description"), "content", <<"a">>)
           \o Tag("<link", Attr("rel", "canonical"), "href", <<Site, "/", "a">>))
    \o BodyEl(<<>>)
RunPool == {Page(SparseSrc, 100, {1, 2}, << <<"/", "a">> >>),
            Page(FullSrc, 400, 1..20, <<>>)}

Init ==
    \E fm \in BOOLEAN, http \in BOOLEAN, url \in {NULL, Site}, pub \in BOOLEAN,
       rb \in RobotsPool, sm \in SitemapPool, firstReadable \in BOOLEAN,
       content \in [1..MaxPages -> RunPool] :
        /\ pub \/ (rb = [exists |-> FALSE, lines |-> <<>>] /\ sm = <<>>)
        /\ http => (firstReadable /\ \A i \in 1..MaxPages : content[i] = content[1])
        /\ Project([fixMode |-> fm, useHttp |-> http, appUrl |-> url, publicDir |-> pub,
                    robots |-> rb, sitemaps |-> sm,
                    views |-> [i \in 1..MaxPages |->
                                 View(ViewPaths[i], i > 1 \/ firstReadable, content[i])]])
Next ==
    \/ Start
    \/ ScanBladeFile
    \/ FetchPage(RunPool)
    \/ ScanRobots
    \/ ScanSitemaps
    \/ ScanRoutes
    \/ RunProjectWideChecks
    \/ ScoreFiles
    \/ EmitReport
Spec == Init /\ [][Next]_vars

FileIssues == [f \in 1..Len(files) |-> files[f].issues]

\* C6: in every run, in template mode and in live-fetch mode, runProjectWideChecks
\* does not start until every page has been visited and the digest of every page
\* analysed has been stored; after it has started no page is analysed and no
\* digest is written; it runs exactly once.
C6_Barrier ==
    /\ []((pc = "aggregate" \/ hist.aggregations >= 1) =>
            /\ queue = <<>>
            /\ hist.analysed = Len(files)
            /\ \A f \in 1..Len(files) : CacheHas(analysisCache, files[f].path)
            /\ ~useHttp => \A v \in 1..Len(views) :
                             views[v].readable =>
                               \E f \in 1..Len(files) : files[f].path = views[v].path)
    /\ [](hist.aggregations <= 1 /\ (pc \in {"score", "report", "done"} =>
                                       hist.aggregations = 1))
    /\ [][hist.aggregations >= 1 =>
            /\ analysisCache' = analysisCache
            /\ hist'.analysed = hist.analysed
            /\ Len(files') = Len(files)]_vars
\* a live-fetch run that analysed every route and has finished
C6_Witness ==
    /\ pc = "done" /\ useHttp /\ hist.aggregations = 1
    /\ hist.analysed = MaxPages /\ Len(analysisCache) = MaxPages

\* C7: in the emitted report every page's score is scoreIssues of the page's final
\* issue list, the aggregator's issues included, and the project score is computed
\* from those page scores and the final project issue list; no issue is added to a
\* list after its score has been computed.
C7_ScoringLast ==
    /\ [](report # <<>> =>
            /\ report[1].files = files /\ report[1].project_issues = issues
            /\ \A f \in 1..Len(files) : files[f].score = scoreIssues(files[f].issues)
            /\ report[1].summary.project_score = scoreProject(files, issues))
    /\ [][hist.scored => hist'.scored /\ FileIssues' = FileIssues]_vars
    /\ [][report # <<>> => report' = report /\ issues' = issues]_vars
\* a report with a page that the aggregator marked as a near duplicate and as an
\* orphan, and with project issues
C7_Witness ==
    /\ report # <<>> /\ issues # <<>>
    /\ \E f \in 1..Len(files) :
         /\ HasType(files[f].issues, "duplicate_content")
         /\ HasType(files[f].issues, "orphan_page")
         /\ files[f].score < 100
         /\ files[f].score = scoreIssues(files[f].issues)
    /\ \E f \in 1..Len(files) : HasType(files[f].issues, "deep_page")

(***************************************************************************)
(* Near duplicates: pages around the word floor and the similarity         *)
(* threshold (17/20 = 0.85, 18/20 = 0.9, 17/18 > 0.94)                     *)
(***************************************************************************)
DupPool == {Page(FullSrc, w, t, <<>>) : w \in {DupWords - 1, DupWords},
                                        t \in {1..20, 1..18, 1..17}}
InitDup ==
    \E http \in BOOLEAN, content \in [1..MaxPages -> DupPool] :
        /\ http => \A i \in 1..MaxPages : content[i] = content[1]
        /\ Project([fixMode |-> FALSE, useHttp |-> http, appUrl |-> Site, publicDir |-> TRUE,
                    robots |-> [exists |-> TRUE, lines |-> RobotsPlaceholder(Site)],
                    sitemaps |-> <<SitemapPlaceholder(Site)>>,
                    views |-> [i \in 1..MaxPages |-> View(ViewPaths[i], TRUE, content[i])]])
NextDup ==
    \/ Start
    \/ ScanBladeFile
    \/ FetchPage(DupPool)
    \/ ScanRobots
    \/ ScanSitemaps
    \/ ScanRoutes
    \/ RunProjectWideChecks
    \/ ScoreFiles
    \/ EmitReport
SpecDup == InitDup /\ [][NextDup]_vars

\* the duplicate_content issues of files[f] that name the page at `path`
Naming(f, path) ==
    {n \in 1..Len(files[f].issues) : /\ files[f].issues[n].type = "duplicate_content"
                                     /\ files[f].issues[n].files = <<path>>}
DigestOf(f) == CacheGet(analysisCache, files[f].path)
\* both word counts >= 200 and |A \cap B| / |A \cup B| > 0.85
Alike(f, g) ==
    /\ DigestOf(f).wordCount >= 200 /\ DigestOf(g).wordCount >= 200
    /\ 100 * Cardinality(DigestOf(f).tokens \cap DigestOf(g).tokens)
         > 85 * Cardinality(DigestOf(f).tokens \cup DigestOf(g).tokens)

\* C8: for every pair of analysed pages {A, B}: A gets a duplicate_content
\* warning naming B and B one naming A, with the same similarity, exactly when
\* both word counts are >= 200 and the Jaccard similarity of the token sets is
\* > 0.85; otherwise neither gets one for the pair; a pair is compared once.
C8_NearDuplicates ==
    \A f, g \in 1..Len(files) :
       f # g =>
         IF hist.aggregations >= 1 /\ Alike(f, g)
         THEN /\ Cardinality(Naming(f, files[g].path)) = 1
              /\ Cardinality(Naming(g, files[f].path)) = 1
              /\ \A n \in Naming(f, files[g].path), k \in Naming(g, files[f].path) :
                   /\ files[f].issues[n].severity = "warning"
                   /\ files[f].issues[n].similarity = files[g].issues[k].similarity
                   /\ files[f].issues[n].similarity > SimPct
         ELSE Naming(f, files[g].path) = {} /\ Naming(g, files[f].path) = {}
\* three long pages after aggregation: the pair at 0.9 is reported with 0.9, the
\* pair at exactly 0.85 is not
C8_Witness ==
    /\ hist.aggregations = 1 /\ Len(files) = 3
    /\ \A f \in 1..3 : DigestOf(f).wordCount = DupWords
    /\ DigestOf(1).tokens = 1..20 /\ DigestOf(2).tokens = 1..18 /\ DigestOf(3).tokens = 1..17
    /\ \E n \in Naming(1, files[2].path) : files[1].issues[n].similarity = 90
    /\ Naming(1, files[3].path) = {} /\ Naming(3, files[2].path) # {}

(***************************************************************************)
(* Duplicate metadata: pages whose titles and descriptions agree after     *)
(* normalisation ("A" and "a!" both become "a"), differ, or hold no        *)
(* character of [a-z0-9] at all ("!" stands for any other character)       *)
(***************************************************************************)
MetaSrc(title, description) ==
    HeadEl(TitleEl(title)
           \o (IF description = <<>> THEN <<>>
               ELSE Tag("<meta", Attr("name", "description"), "content", description)))
    \o BodyEl(<<>>)
MetaPool == {Page(MetaSrc(t, d), 400, {1, 2}, <<>>) :
               t \in {<<"A">>, <<"a", "!">>, <<"B">>, <<"!">>},
               d \in {<<"a">>, <<"A", "!">>, <<>>}}
InitMeta ==
    \E content \in [1..MaxPages -> MetaPool] :
        Project([fixMode |-> FALSE, useHttp |-> FALSE, appUrl |-> NULL, publicDir |-> TRUE,
                 robots |-> [exists |-> TRUE, lines |-> RobotsPlaceholder(Site)],
                 sitemaps |-> <<SitemapPlaceholder(Site)>>,
                 views |-> [i \in 1..MaxPages |-> View(ViewPaths[i], TRUE, content[i])]])
NextMeta ==
    \/ Start
    \/ ScanBladeFile
    \/ ScanRobots
    \/ ScanSitemaps
    \/ ScanRoutes
    \/ RunProjectWideChecks
    \/ ScoreFiles
    \/ EmitReport
SpecMeta == InitMeta /\ [][NextMeta]_vars

\* the project issues of a type, and those among them that list the page f
IssuesOf(type) == {n \in 1..Len(issues) : issues[n].type = type}
Listing(type, f) ==
    {n \in IssuesOf(type) : \E k \in 1..Len(issues[n].files) :
                              issues[n].files[k] = files[f].path}
\* the pages that share the normalised field with page f
GroupOf(field, f) == {g \in 1..Len(files) : DigestOf(g)[field] = DigestOf(f)[field]}
\* page f is listed in exactly one issue of the type, whose file list is exactly
\* the group of f, each member once
OneIssueForGroup(field, type, f) ==
    /\ Cardinality(Listing(type, f)) = 1
    /\ \A n \in Listing(type, f) :
         /\ Len(issues[n].files) = Cardinality(GroupOf(field, f))
         /\ \A g \in GroupOf(field, f) :
              \E k \in 1..Len(issues[n].files) : issues[n].files[k] = files[g].path
Grouped(field, type, pages) ==
    /\ \A f \in pages :
         IF Cardinality(GroupOf(field, f)) > 1 THEN OneIssueForGroup(field, type, f)
         ELSE Listing(type, f) = {}
    /\ \A n \in IssuesOf(type) : \E f \in pages : n \in Listing(type, f)
\* the pages that have a title (a meta description) with some text in it
Titled == {f \in 1..Len(files) :
             \E v \in 1..Len(views) :
                views[v].path = files[f].path /\ TitleText(views[v].html.src) # <<>>}
Described == {f \in 1..Len(files) :
                \E v \in 1..Len(views) :
                   /\ views[v].path = files[f].path
                   /\ Trim(MetaDescContent(views[v].html.src)) # <<>>}

\* C10: the pages that have a title are grouped by normalised title, those that
\* have a description by normalised description; every group with more than one
\* member yields exactly one project issue (duplicate_title, respectively
\* duplicate_meta_description) whose file list is exactly the group; a group of
\* one yields none; no page is listed in two issues of a kind.
C10_DuplicateMetadata ==
    hist.aggregations >= 1 =>
      /\ Grouped("title", "duplicate_title", Titled)
      /\ Grouped("description", "duplicate_meta_description", Described)

(***************************************************************************)
(* Fix passes: the command is run with --fix, then again on what it left.  *)
(* The pages vary every fixable element between absent, present but empty, *)
(* and filled, inside <head> or inside a <header> without a <head>.        *)
(***************************************************************************)
MaxPasses == 2
Absent == <<"absent">>
Element(tag(_), value) == IF value = Absent THEN <<>> ELSE tag(value)
TitleTag(text) == TitleEl(text)
DescriptionTag(text) == Tag("<meta", Attr("name", "description"), "content", text)
CanonicalTag(href) == Tag("<link", Attr("rel", "canonical"), "href", href)
OgTitleTag(text) == Tag("<meta", Attr("property", "og:title"), "content", text)
CardTag(text) == Tag("<meta", Attr("name", "twitter:card"), "content", text)
FixSrc(wrap, t, d, c, o, w, img) ==
    <<wrap, ">", NLI>>
    \o Element(TitleTag, t) \o Element(DescriptionTag, d) \o Element(CanonicalTag, c)
    \o Element(OgTitleTag, o) \o Element(CardTag, w)
    \o <<NL, IF wrap = "<head" THEN "</head>" ELSE "</header>">>
    \o BodyEl(IF img THEN ImgEl(<<>>) ELSE <<>>)
FixPool ==
    {Page(FixSrc(wrap, t, d, c, o, w, img), 400, {1, 2}, <<>>) :
       wrap \in {"<head", "<header"},
       t \in {Absent, <<>>, <<"A">>},
       d \in {Absent, <<>>, <<"a">>},
       c \in {Absent, <<>>, <<Site, "/">>},
       o \in {Absent, <<>>},
       w \in {Absent, <<"summary">>},
       img \in BOOLEAN}
InitFix ==
    \E page \in FixPool, url \in {NULL, Site} :
        Project([fixMode |-> TRUE, useHttp |-> FALSE, appUrl |-> url, publicDir |-> TRUE,
                 robots |-> [exists |-> FALSE, lines |-> <<>>], sitemaps |-> <<>>,
                 views |-> <<View(<<"index">>, TRUE, page)>>])
NextFix ==
    \/ Start
    \/ ScanBladeFile
    \/ ScanRobots
    \/ ScanSitemaps
    \/ ScanRoutes
    \/ RunProjectWideChecks
    \/ ScoreFiles
    \/ EmitReport
    \/ Rerun(MaxPasses)
SpecFix == InitFix /\ [][NextFix]_vars

\* C1: the fix engine is idempotent: when a fix pass has produced its output, a
\* second fix pass on that output records no fix and leaves it unchanged, for
\* every fixable kind, an existing but empty element included.
C1_FixIdempotent ==
    pass >= 2 =>
      /\ \A f \in 1..Len(files) : files[f].fixes_applied = <<>>
      /\ views = history[1].views

\* the issue that a recorded fix was applied for
FixedBy(fix, issue) ==
    \/ fix.type = "img_alt" /\ issue.type = "img_missing_alt"
    \/ fix.type = "title" /\ issue.type = "missing_title"
    \/ fix.type = "meta_description" /\ issue.type = "missing_meta_description"
    \/ fix.type = "canonical" /\ issue.type = "missing_canonical"
    \/ /\ fix.type \in {"opengraph", "twitter"}
       /\ issue.type \in {"missing_og", "missing_twitter"}
       /\ fix.detail \in {"Filled " \o issue.key \o " placeholder.",
                          "Inserted " \o issue.key \o " placeholder."}

\* C2: the fix engine never reintroduces an issue it just fixed: when applyFixes
\* has recorded a fix for an issue kind on a page, the analysis of the fixed
\* source no longer reports that issue for that target.
C2_FixedStaysFixed ==
    pass >= 2 =>
      \A f \in 1..Len(files) :
         \A g \in 1..Len(history[1].report.files) :
            history[1].report.files[g].path = files[f].path =>
              \A n \in 1..Len(history[1].report.files[g].fixes_applied),
                 k \in 1..Len(files[f].issues) :
                   ~FixedBy(history[1].report.files[g].fixes_applied[n], files[f].issues[k])

(***************************************************************************)
(* The link graph: templates that link to each other, two of them          *)
(* (a/index.blade.php and a.blade.php) with the same guessed route.        *)
(***************************************************************************)
\* walk() order: the directory "a" is listed before "a.blade.php"
LinkPaths == << <<"a", "index">>, <<"a">>, <<"b">>, <<"index">> >>
LinkTargets == {<<>>, << <<"/">> >>, << <<"/", "a">> >>, << <<"/", "b", "/">> >>,
                << <<"/", "a", "#top">>, <<"/", "b">> >>}
LinkPool == {Page(FullSrc, 400, {1, 2}, links) : links \in LinkTargets}
InitLinks ==
    \E content \in [1..Len(LinkPaths) -> LinkPool] :
        Project([fixMode |-> FALSE, useHttp |-> FALSE, appUrl |-> NULL, publicDir |-> TRUE,
                 robots |-> [exists |-> TRUE, lines |-> RobotsPlaceholder(Site)],
                 sitemaps |-> <<SitemapPlaceholder(Site)>>,
                 views |-> [i \in 1..Len(LinkPaths) |-> View(LinkPaths[i], TRUE, content[i])]])
NextLinks ==
    \/ Start
    \/ ScanBladeFile
    \/ ScanRobots
    \/ ScanSitemaps
    \/ ScanRoutes
    \/ RunProjectWideChecks
    \/ ScoreFiles
    \/ EmitReport
SpecLinks == InitLinks /\ [][NextLinks]_vars

\* the internal links, over all analysed pages, whose target is the route
LinksTo(route) ==
    {<<g, n>> \in (1..Len(files)) \X (1..4) :
        /\ n <= Len(CacheGet(analysisCache, files[g].path).internalLinks)
        /\ CacheGet(analysisCache, files[g].path).internalLinks[n] = route}
Orphaned(f) == HasType(files[f].issues, "orphan_page")

\* C11: after aggregation every analysed page whose guessed route is not "/" and
\* is the target of no internal link has an orphan_page issue in its own report;
\* the root route never has one, and a page whose route has an inbound link never
\* has one; also when two templates have the same guessed route.
C11_Orphans ==
    pc \in {"score", "report", "done"} =>
      \A f \in 1..Len(files) :
         /\ (files[f].guessed_path # <<"/">> /\ LinksTo(files[f].guessed_path) = {})
               => Orphaned(f)
         /\ files[f].guessed_path = <<"/">> => ~Orphaned(f)
         /\ LinksTo(files[f].guessed_path) # {} => ~Orphaned(f)

(***************************************************************************)
(* guessPath on its own: a template path that grows by one directory at a  *)
(* time.  input is the path below resources/views as text, output the      *)
(* guessed route.                                                          *)
(***************************************************************************)
MaxSegs == 4
SegNames == {"a", "b", "index"}
Ext == ".blade.php"
\* path.relative(viewRoot, filePath) for the file <dirs>/<leaf>.blade.php
RelativeText(dirs, leaf) ==
    Concat([i \in 1..Len(dirs) |-> <<dirs[i], "/">>]) \o <<leaf, Ext>>
\* line 108 and the segments of noExt
NoExt(text) == IF text # <<>> /\ text[Len(text)] = Ext THEN SubSeq(text, 1, Len(text) - 1)
               ELSE text
SegmentsOf(text) == Pick(text, {i \in 1..Len(text) : text[i] # "/"})
InitGuess ==
    /\ Parked("guessPath")
    /\ \E leaf \in SegNames :
         /\ input = [dirs |-> <<>>, leaf |-> leaf, text |-> RelativeText(<<>>, leaf)]
         /\ output = guessPath(SegmentsOf(NoExt(RelativeText(<<>>, leaf))))
Descend ==
    /\ pc = "guessPath" /\ Len(input.dirs) < MaxSegs - 1
    /\ \E dir \in SegNames :
         /\ input' = [input EXCEPT !.dirs = <<dir>> \o @,
                                   !.text = RelativeText(<<dir>> \o input.dirs, input.leaf)]
         /\ output' = guessPath(SegmentsOf(NoExt(input'.text)))
    /\ UNCHANGED runVars
NextGuess == Descend
SpecGuess == InitGuess /\ [][NextGuess]_vars

\* "/" followed by the segments joined with "/"
Slashed(segs) == [i \in 1..(2 * Len(segs)) |-> IF i % 2 = 1 THEN "/" ELSE segs[i \div 2]]

\* C12: the guessed route is a function of the page path alone; the extension is
\* stripped; a path whose last segment is "index" yields its parent route; the
\* top-level index yields "/"; every other path p yields "/" followed by p.
C12_GuessedRoute ==
    pc = "guessPath" =>
      /\ \A i \in 1..Len(output) : output[i] # Ext
      /\ (input.dirs = <<>> /\ input.leaf = "index") => output = <<"/">>
      /\ (input.dirs # <<>> /\ input.leaf = "index") => output = Slashed(input.dirs)
      /\ input.leaf # "index" => output = Slashed(Append(input.dirs, input.leaf))
\* x/index/index.blade.php: only the last index is dropped
C12_Witness ==
    /\ pc = "guessPath" /\ input.leaf = "index" /\ Len(input.dirs) = 2
    /\ input.dirs[2] = "index" /\ output = <<"/", input.dirs[1], "/", "index">>

(***************************************************************************)
(* Live-fetch mode with the await of scanHttpPages visible: a request is   *)
(* sent, and it settles in a later step.  Node runs the synchronous steps   *)
(* of run() and the continuation of every settled promise, and the timer   *)
(* of line 644 settles a request that is not answered: hence the weak      *)
(* fairness of the steps of the fetch loop.                                *)
(***************************************************************************)
InitFetch ==
    \E fm \in BOOLEAN, url \in {NULL, Site}, rb \in RobotsPool, sm \in SitemapPool :
        Project([fixMode |-> fm, useHttp |-> TRUE, appUrl |-> url, publicDir |-> TRUE,
                 robots |-> rb, sitemaps |-> sm,
                 views |-> <<View(<<"index">>, TRUE, CHOOSE p \in RunPool : TRUE)>>])
NextFetch ==
    \/ Start
    \/ BeginFetch
    \/ SettleFetch(RunPool)
    \/ ScanRobots
    \/ ScanSitemaps
    \/ ScanRoutes
    \/ RunProjectWideChecks
    \/ ScoreFiles
    \/ EmitReport
SpecFetch ==
    /\ InitFetch /\ [][NextFetch]_vars
    /\ WF_vars(Start) /\ WF_vars(BeginFetch) /\ WF_vars(SettleFetch(RunPool))

\* the candidate set of the project's routes/web.php
Candidates ==
    {<<"/">>} \cup {WithSlash(RouteDecls[i].route) :
                      i \in {j \in 1..Len(RouteDecls) :
                               /\ RouteDecls[j].kind \in {"get", "view", "any"}
                               /\ IsStatic(RouteDecls[j].route)}}
Queued(route) == \E i \in 1..Len(queue) : queue[i] = route
Attempted(route) == \E i \in 1..Len(hist.attempts) : hist.attempts[i].route = route
Succeeded == Pick(hist.attempts, {i \in 1..Len(hist.attempts) : hist.attempts[i].outcome = "ok"})

\* C13: in live-fetch mode a fetch that fails, is aborted or is answered with a
\* non-OK response adds no page report and does not stop the loop; every other
\* route of the candidate set is eventually fetched and, when its fetch succeeds,
\* analysed and reported; the timer of a request is cleared after every attempt.
C13_FetchIsolation ==
    /\ [][(pc = "fetching" /\ Len(hist'.attempts) > Len(hist.attempts)
             /\ hist'.attempts[Len(hist'.attempts)].outcome # "ok")
          => (files' = files /\ analysisCache' = analysisCache
              /\ queue' = Tail(queue) /\ pc' = "pages")]_vars
    /\ [](hist.timers = IF pc = "fetching" THEN 1 ELSE 0)
    /\ [](Len(files) = Len(Succeeded)
          /\ \A f \in 1..Len(files) : /\ files[f].path = <<appUrl>> \o Succeeded[f].route
                                      /\ files[f].guessed_path = Succeeded[f].route)
    /\ \A route \in Candidates : [](Queued(route) => <>Attempted(route))
    /\ [](pc \in {"report", "done"} =>
            \A f \in 1..Len(files) : CacheHas(analysisCache, files[f].path))
\* the run is over, the first fetch was rejected and a later one was analysed
C13_Witness ==
    /\ pc = "done" /\ Len(hist.attempts) = Cardinality(Candidates)
    /\ hist.attempts[1].outcome = "throws"
    /\ \E i \in 2..Len(hist.attempts) : hist.attempts[i].outcome = "ok"
    /\ Len(report[1].files) = Len(Succeeded) /\ hist.timers = 0

\* C14: no condition is fatal to the run: for every combination of inputs (an
\* unreadable page, missing or invalid robots and sitemap files, a missing public
\* or views directory, a failed fetch, a file that cannot be written in fix mode)
\* the run does not end before it has emitted the report.
C14_NeverFatal == pc # "crashed"

RobotsTypes == {"missing_robots", "robots_created", "robots_missing_user_agent",
                "robots_missing_sitemap", "robots_disallow_all", "robots_sitemap_mismatch"}
\* the types of the robots issues of the project, in the order they were added
RobotsFindings ==
    LET found == Pick(issues, {n \in 1..Len(issues) : issues[n].type \in RobotsTypes})
    IN  [n \in 1..Len(found) |-> found[n].type]

\* C15: when robots.txt is absent and fix mode is on, the run adds missing_robots
\* followed by robots_created, and afterwards a robots file exists that has a
\* User-agent line and a Sitemap line; with fix mode off only missing_robots is
\* added and no file is created; in both cases no other robots check is made.
C15_MissingRobots ==
    (pc \notin {"start", "pages"} /\ HasType(issues, "missing_robots")) =>
      IF fixMode
      THEN /\ RobotsFindings = <<"missing_robots", "robots_created">>
           /\ robots.exists
           /\ HasWord(robots.lines, "User-agent:") /\ HasWord(robots.lines, "Sitemap:")
      ELSE /\ RobotsFindings = <<"missing_robots">>
           /\ ~robots.exists

Unreadable == {v \in 1..Len(views) : ~views[v].readable}
Reported(path) == \E f \in 1..Len(files) : files[f].path = path

\* C16: an unreadable page source is skipped silently: no page report and no
\* digest are created for it, no issue is added to any list, the file is not
\* written even in fix mode, and every other page is still analysed and reported.
C16_UnreadableSkipped ==
    /\ [][(pc = "pages" /\ ~useHttp /\ queue # <<>>
             /\ \E v \in Unreadable : views[v].path = Head(queue))
          => (files' = files /\ analysisCache' = analysisCache /\ issues' = issues
              /\ views' = views /\ queue' = Tail(queue) /\ pc' = "pages")]_vars
    /\ [](~useHttp => \A v \in Unreadable :
            ~Reported(views[v].path) /\ ~CacheHas(analysisCache, views[v].path))
    /\ [](~useHttp /\ pc \in {"report", "done"} =>
            \A v \in (1..Len(views)) \ Unreadable :
               Reported(views[v].path) /\ CacheHas(analysisCache, views[v].path))
    /\ [](~useHttp /\ pc = "done" => Len(report[1].files) = Len(views) - Cardinality(Unreadable))
\* a fix run over a project whose first template cannot be read has ended
C16_Witness ==
    /\ pc = "done" /\ ~useHttp /\ fixMode /\ Unreadable = {1}
    /\ Len(report[1].files) = Len(views) - 1
    /\ \E f \in 1..Len(files) : files[f].fixes_applied # <<>>

(***************************************************************************)
(* Fix passes over templates that hold headings, body text, hreflang links *)
(* and JSON-LD blocks: a layout with <head> and <body>, a partial that is  *)
(* one <header> element, and a body whose first element is a <header>.     *)
(***************************************************************************)
H1El == <<"<h1", ">", "B", "</h1>">>
HreflangEl == <<"<link", Attr("rel", "alternate"), Attr("hreflang", "en"),
                AttrOpen("href"), Site, "/", Q, ">">>
JsonLdEl == <<"<script", Attr("type", "application/ld+json"), ">", "{}", "</script>">>
\* every element the fix engine looks for, filled
FullHead ==
    Tag("<meta", Attr("name", "description"), "content", <<"a">>)
    \o Tag("<link", Attr("rel", "canonical"), "href", <<Site, "/">>)
    \o Concat([k \in 1..Len(ogRequired) |->
                 Tag("<meta", Attr("property", ogRequired[k]), "content", <<"a">>)])
    \o Concat([k \in 1..Len(twitterRequired) |->
                 Tag("<meta", Attr("name", twitterRequired[k]), "content", <<"a">>)])
Content(img, extras) ==
    H1El \o <<"a", " ", "b">>
    \o (CASE img = "none" -> <<>>
          [] img = "no alt" -> ImgEl(<<>>)
          [] img = "alt" -> ImgEl(<<AttrOpen("alt"), "a", Q>>))
    \o (IF extras THEN JsonLdEl ELSE <<>>)
FrameSrc(shell, t, full, img, extras) ==
    CASE shell = "layout" ->
           HeadEl(Element(TitleTag, t) \o (IF full THEN FullHead ELSE <<>>)
                  \o (IF extras THEN HreflangEl ELSE <<>>))
           \o BodyEl(Content(img, extras))
      [] shell = "partial" ->
           <<"<header", ">">> \o Content(img, extras) \o <<"</header>">>
      [] shell = "nested" ->
           BodyEl(<<"<header", ">">> \o Content(img, extras) \o <<"</header>">>)
FramePool ==
    {Page(FrameSrc(shell, t, full, img, extras), 400, {1, 2}, <<>>) :
       shell \in {"layout", "partial", "nested"}, t \in {Absent, <<>>, <<"A">>},
       full \in BOOLEAN, img \in {"none", "no alt", "alt"}, extras \in BOOLEAN}
InitFrame ==
    \E page \in FramePool, url \in {NULL, Site} :
        Project([fixMode |-> TRUE, useHttp |-> FALSE, appUrl |-> url, publicDir |-> TRUE,
                 robots |-> [exists |-> FALSE, lines |-> <<>>], sitemaps |-> <<>>,
                 views |-> <<View(<<"index">>, TRUE, page)>>])
NextFrame ==
    \/ Start
    \/ ScanBladeFile
    \/ ScanRobots
    \/ ScanSitemaps
    \/ ScanRoutes
    \/ RunProjectWideChecks
    \/ ScoreFiles
    \/ EmitReport
SpecFrame == InitFrame /\ [][NextFrame]_vars

\* the atoms of the elements opened by one of the openers, closing tag included
Elements(s, openers, closer) ==
    Pick(s, {j \in 1..Len(s) :
               \E i \in 1..j : /\ s[i] \in openers /\ IsTag(s, i)
                               /\ \A c \in i..(j - 1) : s[c] # closer})
\* line 372: the text of <body>, or of the whole document when there is no <body>
BodyTextOf(s) ==
    IF TagsOf(s, "<body") # {}
    THEN textContent(NodeText(s, FirstIn(TagsOf(s, "<body")), "</body>"))
    ELSE textContent(Pick(s, {j \in 1..Len(s) : ~InTag(s, j) /\ ~HasGt(s[j])}))
\* what a fix pass has to leave alone, as the parser sees it in the normalized text
Parts(s) ==
    [headings |-> Elements(s, {"<h1", "<h2"}, "</h1>"),
     text     |-> BodyTextOf(s),
     hreflang |-> {SubSeq(s, i, TagEnd(s, i)) : i \in Hreflang(s)},
     jsonLd   |-> Elements(s, {"<script"}, "</script>")]
Untouched(raw) == Parts(stripBlade(raw))
Fixable == {"img_missing_alt", "missing_title", "missing_meta_description",
            "missing_canonical", "missing_og", "missing_twitter"}

\* C17: the fix engine never acts on non-fixable issues: when the issue list of a
\* page holds none of the six fixable types, applyFixes leaves the source
\* unchanged, records no fix and does not write the file; and in every case the
\* heading elements, the body text, the hreflang links and the JSON-LD blocks of
\* the source are the same after the fix pass.
C17_FixFrame ==
    [][(pc = "pages" /\ fixMode /\ ~useHttp /\ Len(files') = Len(files) + 1) =>
         /\ \A v \in 1..Len(views) :
               Untouched(views'[v].html.src) = Untouched(views[v].html.src)
         /\ (\A n \in 1..Len(files'[Len(files')].issues) :
                files'[Len(files')].issues[n].type \notin Fixable)
              => (views' = views /\ files'[Len(files')].fixes_applied = <<>>)]_vars

\* C18: by default (the run has no --full flag) the emitted report is compact: a
\* file entry carries only path, score and issues_count, without issues, stats or
\* fixes_applied, and project_issues is omitted.
C18_CompactByDefault ==
    pc = "done" =>
      /\ \A f \in 1..Len(report[1].files) :
            DOMAIN report[1].files[f] = {"path", "score", "issues_count"}
      /\ "project_issues" \notin DOMAIN report[1]

(***************************************************************************)
(* stripBlade on its own: a template text that grows by one atom at a      *)
(* time; output is stripBlade(input).  "@if" spells a directive with its   *)
(* arguments, as in @if($x).                                               *)
(***************************************************************************)
MaxAtoms == 5
\* whole tags
HtmlAtoms == {"<h1>", "</h1>"}
TemplateAtoms == HtmlAtoms \cup {"@if", "@endif", NL, InterpWhole}
InitStrip ==
    /\ Parked("stripBlade")
    /\ input = <<>>
    /\ output = stripBlade(<<>>)
AppendAtom ==
    /\ pc = "stripBlade" /\ Len(input) < MaxAtoms
    /\ \E a \in TemplateAtoms :
         /\ input' = Append(input, a)
         /\ output' = stripBlade(input')
    /\ UNCHANGED runVars
NextStrip == AppendAtom
SpecStrip == InitStrip /\ [][NextStrip]_vars

\* the HTML tags of a text, in order
HtmlOf(text) == Pick(text, {i \in 1..Len(text) : text[i] \in HtmlAtoms})

\* C19: normalization preserves the HTML structure: stripBlade removes only a
\* directive with the rest of its own statement and replaces an interpolation by
\* the sentinel, so every HTML tag of the raw source outside them is in the
\* output, in the same order, also when it follows a directive on the same line.
C19_StructurePreserved == pc = "stripBlade" => HtmlOf(output) = HtmlOf(input)

(***************************************************************************)
(* The heading rules on their own: the headings of a page, in document     *)
(* order, one more at a time; output holds the issues of the rule set.     *)
(***************************************************************************)
MaxHeadings == 4
Levels == 1..6
InitHeadings ==
    /\ Parked("headings")
    /\ input = <<>>
    /\ output = HeadingIssues(<<>>)
AddHeading ==
    /\ pc = "headings" /\ Len(input) < MaxHeadings
    /\ \E level \in Levels :
         /\ input' = Append(input, level)
         /\ output' = HeadingIssues(input')
    /\ UNCHANGED runVars
NextHeadings == AddHeading
SpecHeadings == InitHeadings /\ [][NextHeadings]_vars

Emitted(type, severity) ==
    Cardinality({n \in 1..Len(output) : output[n].type = type /\ output[n].severity = severity})
OfType(type) == Cardinality({n \in 1..Len(output) : output[n].type = type})
Jumps == {i \in 1..(Len(input) - 1) : input[i + 1] > input[i] + 1}

\* C20: for every sequence of heading levels, missing_h1 (error) is emitted iff
\* there is no h1, multiple_h1 (warning) iff there is more than one,
\* heading_starts_not_h1 (error) iff the first heading has a level above 1, and
\* one heading_jump warning per adjacent pair whose level rises by more than one;
\* so one h1 in first place and no jump give no heading issue, and h1 followed by
\* h3 gives one heading_jump and neither missing_h1 nor multiple_h1.
C20_HeadingRules ==
    pc = "headings" =>
      LET h1 == Cardinality({i \in 1..Len(input) : input[i] = 1})
      IN  /\ Emitted("missing_h1", "error") = (IF h1 = 0 THEN 1 ELSE 0)
          /\ Emitted("multiple_h1", "warning") = (IF h1 > 1 THEN 1 ELSE 0)
          /\ Emitted("heading_starts_not_h1", "error")
               = (IF input # <<>> /\ input[1] > 1 THEN 1 ELSE 0)
          /\ Emitted("heading_jump", "warning") = Cardinality(Jumps)
          /\ \A t \in {"missing_h1", "multiple_h1", "heading_starts_not_h1", "heading_jump"} :
                OfType(t) = Emitted(t, IF t \in {"missing_h1", "heading_starts_not_h1"}
                                       THEN "error" ELSE "warning")
          /\ Len(output) = OfType("missing_h1") + OfType("multiple_h1")
                           + OfType("heading_starts_not_h1") + OfType("heading_jump")
          /\ (h1 = 1 /\ input[1] = 1 /\ Jumps = {}) => output = <<>>
          /\ input = <<1, 3>> => (OfType("heading_jump") = 1 /\ Len(output) = 1)
\* h1, h3, h2, h4: two jumps and nothing else
C20_Witness ==
    /\ pc = "headings" /\ input = <<1, 3, 2, 4>>
    /\ Len(output) = 2 /\ OfType("heading_jump") = 2

(***************************************************************************)
(* The canonical rules on their own: scanHtml on pages whose canonical     *)
(* link varies in origin and query, with a second canonical link and an    *)
(* og:url of its own, for every base URL setting.                          *)
(***************************************************************************)
CanonicalHrefs ==
    {Absent, <<>>}
    \cup {origin \o <<"/", "x">> \o query :
            origin \in {<<>>} \cup {<<o>> : o \in Origins},
            query \in {<<>>} \cup {<<q>> : q \in {"?y=1"} \cup HttpQueries}}
OgUrlTag(text) == Tag("<meta", Attr("property", "og:url"), "content", text)
CanonicalSrc(c, second, og) ==
    HeadEl(Element(CanonicalTag, c) \o Element(OgUrlTag, og) \o Element(CanonicalTag, second))
    \o BodyEl(<<>>)
CanonicalPool ==
    {Page(CanonicalSrc(c, second, og), 400, {1, 2}, <<>>) :
       c \in CanonicalHrefs,
       second \in {Absent, <<Site, "/">>},
       og \in {Absent, <<"http://a.test", "/">>}}
InitCanonical ==
    /\ Parked("scanHtml")
    /\ \E page \in CanonicalPool, url \in {NULL} \cup (Origins \ HttpOrigins) :
          input = [html |-> page, url |-> url, scanned |-> FALSE]
    /\ output = <<>>
ScanHtml ==
    /\ pc = "scanHtml" /\ ~input.scanned
    /\ input' = [input EXCEPT !.scanned = TRUE]
    /\ output' = scanHtml(input.html, input.url)
    /\ UNCHANGED runVars
NextCanonical == ScanHtml
SpecCanonical == InitCanonical /\ [][NextCanonical]_vars

\* the page's one canonical link is absolute, on https, and has a query string
SecureWithQuery(s) ==
    /\ Cardinality(CanonicalTags(s)) = 1
    /\ CanonicalHref(s) # <<>>
    /\ CanonicalHref(s)[1] \in Origins \ HttpOrigins
    /\ \E i \in 1..Len(CanonicalHref(s)) : IsQuery(CanonicalHref(s)[i])
\* the page without its canonical link
WithoutCanonical(s) ==
    Splice(s, Min(CanonicalTags(s)), TagEnd(s, Min(CanonicalTags(s))), <<>>)
\* a mixed_content warning is emitted for the canonical link
MixedForCanonical(s) == MixedIssues(s) # MixedIssues(WithoutCanonical(s))
CanonicalOnlyQuery(s, url, list) ==
    /\ \A type \in {"missing_canonical", "multiple_canonical", "canonical_not_absolute",
                     "canonical_http"} : ~HasType(list, type)
    /\ HasType(list, "canonical_has_query")
    /\ HasType(list, "canonical_base_mismatch") <=> (url # NULL /\ CanonicalHref(s)[1] # url)

\* C21 (as stated): for a page with exactly one canonical link whose href is an
\* absolute https URL with a query string, canonical_has_query is emitted, none
\* of missing_canonical, multiple_canonical, canonical_not_absolute,
\* canonical_http or mixed_content is emitted for it, and
\* canonical_base_mismatch is emitted only when a base URL is known and is not
\* a prefix of the href.
C21_QueryOnly ==
    (input.scanned /\ SecureWithQuery(input.html.src)) =>
       /\ CanonicalOnlyQuery(input.html.src, input.url, output)
       /\ ~MixedForCanonical(input.html.src)

\* C21 (amended): as above, except that mixed_content is emitted for the
\* canonical link exactly when the text of its href holds "http://" (which,
\* the scheme being https, lies in the query string).
C21_QueryOnlyUnlessHttpInside ==
    (input.scanned /\ SecureWithQuery(input.html.src)) =>
       /\ CanonicalOnlyQuery(input.html.src, input.url, output)
       /\ MixedForCanonical(input.html.src)
            <=> \E i \in 1..Len(CanonicalHref(input.html.src)) :
                   CanonicalHref(input.html.src)[i] \in HttpQueries

C21_Witness ==
    /\ input.scanned /\ SecureWithQuery(input.html.src)
    /\ input.url = Site
    /\ CanonicalHref(input.html.src) = <<"https://b.test", "/", "x", "?u=http://b.test">>
    /\ HasType(output, "canonical_base_mismatch")
    /\ MixedForCanonical(input.html.src)

(***************************************************************************)
(* applyFixes on its own: one template is analysed and fixed, as           *)
(* scanBladeFile does in fix mode.  The templates vary every fixable       *)
(* element between absent, empty, blank and filled, inside a <head>,       *)
(* inside a <header> without a <head>, or with neither.                    *)
(***************************************************************************)
ApplySrc(shell, t, d, c, o, w, img) ==
    (IF shell = "" THEN <<>> ELSE <<shell, ">", NLI>>)
    \o Element(TitleTag, t) \o Element(DescriptionTag, d) \o Element(CanonicalTag, c)
    \o Element(OgTitleTag, o) \o Element(CardTag, w)
    \o (IF shell = "" THEN <<>>
        ELSE <<NL, IF shell = "<head" THEN "</head>" ELSE "</header>">>)
    \o BodyEl(IF img THEN ImgEl(<<>>) ELSE <<>>)
\* a layout whose OpenGraph and Twitter tags are all filled
CompleteSrc(t, d, c) ==
    HeadEl(Element(TitleTag, t) \o Element(DescriptionTag, d) \o Element(CanonicalTag, c)
           \o Concat([k \in 1..Len(ogRequired) |->
                        Tag("<meta", Attr("property", ogRequired[k]), "content", <<"a">>)])
           \o Concat([k \in 1..Len(twitterRequired) |->
                        Tag("<meta", Attr("name", twitterRequired[k]), "content", <<"a">>)]))
    \o BodyEl(<<>>)
ApplyPool ==
    {Page(ApplySrc(shell, t, d, c, o, w, img), 400, {1, 2}, <<>>) :
       shell \in {"<head", "<header", ""},
       t \in {Absent, <<>>, <<NL>>, <<"A">>},
       d \in {Absent, <<>>, <<"a">>},
       c \in {Absent, <<>>, <<Site, "/">>},
       o \in {Absent, <<>>},
       w \in {Absent, <<"summary">>},
       img \in BOOLEAN}
    \cup {Page(CompleteSrc(t, d, c), 400, {1, 2}, <<>>) :
            t \in {Absent, <<"A">>},
            d \in {Absent, <<"a">>},
            c \in {Absent, <<>>, <<Site, "/">>}}
NoFix(raw) == [updated |-> raw, fixes |-> <<>>, changed |-> FALSE]
InitApply ==
    /\ Parked("applyFixes")
    /\ \E page \in ApplyPool, url \in {NULL, Site} :
          /\ input = [html |-> page, url |-> url, applied |-> FALSE]
          /\ output = [file |-> FileReport(<<"index">>, Cleaned(page), url, <<"/">>),
                       fix |-> NoFix(page.src)]
ApplyFixes ==
    /\ pc = "applyFixes" /\ ~input.applied
    /\ input' = [input EXCEPT !.applied = TRUE]
    /\ output' = scanBladeFile(<<"index">>, input.html, input.url, TRUE)
    /\ UNCHANGED runVars
NextApply == ApplyFixes
SpecApply == InitApply /\ [][NextApply]_vars

\* the fixes of one kind that applyFixes recorded
FixesOf(type) == {n \in 1..Len(output.fix.fixes) : output.fix.fixes[n].type = type}
\* the text inside the first <title> element of u
TitleInner(u) == SubSeq(u, FirstGt(u, TitleMatch(u)) + 1, TitleClose(u, TitleMatch(u)) - 1)
\* u with snippet on a line of its own right after the opening tag of <head>
InsertedInHead(u, snippet) ==
    Splice(u, TagEnd(u, HeadTag(u)) + 1, TagEnd(u, HeadTag(u)), <<NLI>> \o snippet)

\* C22: when missing_title is among the issues and the source has a <title>
\* whose text is empty or blank, the placeholder goes inside that element and
\* one 'title' fix is recorded; when the source has no <title> and has a <head>,
\* one placeholder <title> is inserted into <head> and one 'title' fix is
\* recorded; when the first <title> has text, the title is left alone and no
\* 'title' fix is recorded.
C22_TitleFix ==
    LET raw == input.html.src
        upd == output.fix.updated
    IN  (input.applied /\ HasType(output.file.issues, "missing_title")) =>
          /\ (TitleMatch(raw) # 0 /\ Trim(TitleInner(raw)) = <<>>) =>
                /\ Cardinality(FixesOf("title")) = 1
                /\ TitleMatch(upd) # 0
                /\ Trim(TitleInner(upd)) # <<>>
          /\ (TitleMatch(raw) = 0 /\ HeadTag(raw) # 0) =>
                /\ Cardinality(FixesOf("title")) = 1
                /\ TitleMatch(upd) # 0
                /\ InHead(upd, TitleMatch(upd))
                /\ TitleInner(upd) = <<"TODO">>
          /\ (TitleMatch(raw) # 0 /\ Trim(TitleInner(raw)) # <<>>) =>
                /\ FixesOf("title") = {}
                /\ TitleMatch(upd) # 0
                /\ TitleInner(upd) = TitleInner(raw)

\* the details of the fixes that insert a new element
InsertedDetails ==
    {"Inserted <title> placeholder.", "Inserted meta description placeholder.",
     "Inserted canonical placeholder."}
    \cup {"Inserted " \o ogRequired[i] \o " placeholder." : i \in 1..Len(ogRequired)}
    \cup {"Inserted " \o twitterRequired[i] \o " placeholder." : i \in 1..Len(twitterRequired)}
Insertions ==
    {n \in 1..Len(output.fix.fixes) : output.fix.fixes[n].detail \in InsertedDetails}
\* the title, meta and link elements of u
HeadElements(u) == {i \in 1..Len(u) : u[i] \in {"<title", "<meta", "<link"} /\ FirstGt(u, i) # 0}

\* C23: every element the fix engine inserts is placed inside the page's <head>,
\* right after its opening tag; when the source has no <head> element (it may
\* have a <header>), nothing is inserted and no insertion is recorded.
C23_InsertionTarget ==
    LET raw == input.html.src
        upd == output.fix.updated
    IN  input.applied =>
          /\ Cardinality(HeadElements(upd)) = Cardinality(HeadElements(raw)) + Cardinality(Insertions)
          /\ HeadTag(raw) = 0 => Insertions = {}
          /\ (HeadTag(raw) # 0 /\ Insertions # {}) =>
                /\ HeadTag(upd) # 0
                /\ upd[TagEnd(upd, HeadTag(upd)) + 1] = NLI
                /\ TagEnd(upd, HeadTag(upd)) + 2 \in HeadElements(upd)
                /\ \A i \in HeadElements(upd) : InHead(upd, i)

(***************************************************************************)
(* scanRobots on a robots.txt that grows line by line                      *)
(***************************************************************************)
MaxLines == 4
RobotsLines ==
    {<<"User-agent:", " ", "*">>, <<"User-agent:", " ", "bot">>,
     <<"Disallow:", " ", "/">>, <<"Disallow:", " ", "/", "admin">>, <<"Disallow:">>, <<>>}
InitRobots == Parked("scanRobots") /\ input = <<>> /\ output = RobotsIssues(<<>>, NULL)
AppendLine ==
    /\ pc = "scanRobots" /\ Len(input) < MaxLines
    /\ \E line \in RobotsLines :
         /\ input' = Append(input, line)
         /\ output' = RobotsIssues(input', NULL)
    /\ UNCHANGED runVars
NextRobots == AppendLine
SpecRobots == InitRobots /\ [][NextRobots]_vars

\* the line is a Disallow rule whose path is exactly "/"
DisallowsSite(line) ==
    \E k \in 1..Len(line) :
       /\ line[k] = "Disallow:"
       /\ \E j \in (k + 1)..Len(line) :
             /\ line[j] = "/"
             /\ \A i \in ((k + 1)..Len(line)) \ {j} : IsSpace(line[i])
IsWildcard(line) == \E k \in 1..Len(line) : line[k] = "User-agent:" /\ NextInLine(line, k) = "*"
\* the blocks with a wildcard user-agent line and a rule that disallows the site
ClosedBlocks(lines) ==
    {b \in {BlockOf(lines, i) : i \in {j \in 1..Len(lines) : ~IsBlank(lines[j])}} :
       /\ \E i \in 1..Len(lines) : ~IsBlank(lines[i]) /\ BlockOf(lines, i) = b /\ IsWildcard(lines[i])
       /\ \E i \in 1..Len(lines) : ~IsBlank(lines[i]) /\ BlockOf(lines, i) = b /\ DisallowsSite(lines[i])}

\* C24: robots_disallow_all is emitted once for each block that has a wildcard
\* user-agent line and a Disallow rule whose path is exactly "/", and for no
\* other block: a wildcard block that disallows only a sub-path such as /admin,
\* or whose Disallow is empty, gets no warning.
C24_DisallowAll ==
    Cardinality({n \in 1..Len(output) : output[n].type = "robots_disallow_all"})
      = Cardinality(ClosedBlocks(input))

(***************************************************************************)
(* One template, with and without --fix: what the run writes back          *)
(***************************************************************************)
InitWrite ==
    \E page \in ApplyPool, fm \in BOOLEAN, url \in {NULL, Site} :
        Project([fixMode |-> fm, useHttp |-> FALSE, appUrl |-> url, publicDir |-> TRUE,
                 robots |-> [exists |-> FALSE, lines |-> <<>>], sitemaps |-> <<>>,
                 views |-> <<View(<<"index">>, TRUE, page)>>])
NextWrite ==
    \/ Start
    \/ ScanBladeFile
    \/ ScanRobots
    \/ ScanSitemaps
    \/ ScanRoutes
    \/ RunProjectWideChecks
    \/ ScoreFiles
    \/ EmitReport
SpecWrite == InitWrite /\ [][NextWrite]_vars

DigestKeys == {analysisCache[i].path : i \in 1..Len(analysisCache)}
ReportPaths == {files[f].path : f \in 1..Len(files)}

\* C26: each page that is analysed adds one page report to the report list and
\* one digest to the digest store under the page's path, a key no earlier page
\* wrote; no other step adds or removes a report or touches the store; so when
\* aggregation starts the digest keys are the report paths and no path is
\* reported twice.
C26_ExactlyOnce ==
    /\ [][IF hist'.analysed = hist.analysed + 1
          THEN /\ Len(files') = Len(files) + 1
               /\ SubSeq(files', 1, Len(files)) = files
               /\ ~CacheHas(analysisCache, files'[Len(files')].path)
               /\ Len(analysisCache') = Len(analysisCache) + 1
               /\ SubSeq(analysisCache', 1, Len(analysisCache)) = analysisCache
               /\ analysisCache'[Len(analysisCache')].path = files'[Len(files')].path
          ELSE Len(files') = Len(files) /\ analysisCache' = analysisCache]_vars
    /\ [](pc = "aggregate" =>
            /\ DigestKeys = ReportPaths
            /\ Cardinality(ReportPaths) = Len(files)
            /\ Len(analysisCache) = Len(files)
            /\ Len(files) = hist.analysed)
\* aggregation starts after a live-fetch run analysed every route, and after a
\* template run analysed every template
C26_Witness ==
    /\ pc = "aggregate" /\ Len(files) = MaxPages /\ hist.analysed = MaxPages
    /\ Cardinality(DigestKeys) = MaxPages

SitemapTypes == {"missing_sitemap", "sitemap_created", "invalid_sitemap_xml",
                 "sitemap_missing_loc", "sitemap_loc_mismatch", "sitemap_missing_lastmod",
                 "sitemap_missing_changefreq", "sitemap_missing_priority",
                 "missing_sitemap_index"}
\* the first run created both placeholders
CreatedBoth ==
    /\ history # <<>>
    /\ HasType(history[1].report.project_issues, "robots_created")
    /\ HasType(history[1].report.project_issues, "sitemap_created")

\* C27: after a fix-mode run has created robots.txt and sitemap.xml, a second run
\* over the project it left, with the same base URL (known or unknown), adds
\* no robots issue and no sitemap issue of any type, and neither creates nor
\* changes robots.txt or a sitemap.
C27_PlaceholdersValid ==
    /\ []((pass >= 2 /\ CreatedBoth) =>
            \A n \in 1..Len(issues) : issues[n].type \notin RobotsTypes \cup SitemapTypes)
    /\ [][(pass >= 2 /\ CreatedBoth) => (robots' = robots /\ sitemaps' = sitemaps)]_vars
C27_Witness ==
    /\ pass = 2 /\ pc = "done" /\ CreatedBoth
    /\ appUrl = NULL
    /\ robots = [exists |-> TRUE, lines |-> RobotsPlaceholder(NULL)]
    /\ sitemaps = <<SitemapPlaceholder(NULL)>>
    /\ HasType(issues, "redirect_not_301")

\* s is the beginning of t
IsPrefix(s, t) == Len(s) <= Len(t) /\ SubSeq(t, 1, Len(s)) = s
\* what a run without --fix reports for the template at the head of the queue
Unfixed == scanBladeFile(Head(queue), views[1].html, appUrl, FALSE).file

\* C28: in fix mode the report describes the page as it was read: the issues of
\* a page are those of its source before applyFixes ran, later steps only add
\* to them, and in the report every recorded fix still has the issue that
\* triggered it in the page's issue list, which is the list the page's score is
\* computed from.
C28_ReportIsPreFix ==
    /\ [][Len(files') = Len(files) + 1 =>
            /\ files'[Len(files')].issues = Unfixed.issues
            /\ files'[Len(files')].stats = Unfixed.stats]_vars
    /\ [][\A f \in 1..Len(files) :
            /\ IsPrefix(files[f].issues, files'[f].issues)
            /\ files'[f].fixes_applied = files[f].fixes_applied]_vars
    /\ [](report # <<>> =>
            \A f \in 1..Len(report[1].files) :
               /\ \A n \in 1..Len(report[1].files[f].fixes_applied) :
                     \E k \in 1..Len(report[1].files[f].issues) :
                        FixedBy(report[1].files[f].fixes_applied[n], report[1].files[f].issues[k])
               /\ report[1].files[f].score = scoreIssues(report[1].files[f].issues)
               /\ report[1].files[f].fixes_applied # <<>> => report[1].files[f].score < 100)
\* a report of a fix-mode run with a filled title: missing_title is still listed
C28_Witness ==
    /\ report # <<>> /\ fixMode
    /\ \E n \in 1..Len(report[1].files[1].fixes_applied) :
          report[1].files[1].fixes_applied[n].detail = "Filled empty <title> placeholder."
    /\ HasType(report[1].files[1].issues, "missing_title")
    /\ report[1].files[1].score < 100

\* the paths of the templates of the project
TemplatePaths == {views[i].path : i \in 1..Len(views)}

\* C29: a run is either a live-fetch run or a template run.  In a live-fetch run
\* no template is analysed or modified: every page report is that of a fetched
\* URL and has no fixes_applied, even with --fix, and no template file changes;
\* in a template run every page report is that of a template.  A live-fetch
\* run without a base URL analyses no page: its report has files_scanned = 0
\* and a project score of 100 minus the project-issue penalty.
C29_ModesExclusive ==
    /\ [](useHttp => \A f \in 1..Len(files) :
                       /\ files[f].path \notin TemplatePaths
                       /\ Head(files[f].path) = appUrl
                       /\ files[f].fixes_applied = <<>>)
    /\ [][useHttp => views' = views]_vars
    /\ [](~useHttp => \A f \in 1..Len(files) : files[f].path \in TemplatePaths)
    /\ []((useHttp /\ appUrl = NULL) => (files = <<>> /\ analysisCache = <<>>))
    /\ []((useHttp /\ appUrl = NULL /\ report # <<>>) =>
            /\ report[1].summary.files_scanned = 0
            /\ report[1].summary.project_score = 100 - (100 - scoreIssues(issues)))
\* a live-fetch run with --fix that analysed pages with fixable issues
C29_Witness ==
    /\ report # <<>> /\ useHttp /\ fixMode
    /\ Len(files) = MaxPages
    /\ HasType(files[1].issues, "missing_title")
    /\ HasType(files[1].issues, "img_missing_alt")
    /\ files[1].fixes_applied = <<>>
    /\ HasType(issues, "robots_created")

\* what the analysis reports for the source applyFixes produced
Reanalysed ==
    scanBladeFile(<<"index">>, [input.html EXCEPT !.src = output.fix.updated],
                  input.url, FALSE).file

\* C30: a fix pass never makes a page score worse: with the base URL known or
\* unknown, the score of the source that applyFixes produced is at least the
\* score of the original source; the canonical placeholder inserted for
\* missing_canonical does not bring canonical issues that deduct more than
\* missing_canonical did.
C30_FixNeverLowersScore ==
    input.applied =>
       /\ scoreIssues(Reanalysed.issues) >= scoreIssues(output.file.issues)
       /\ (\E n \in FixesOf("canonical") : TRUE) =>
             100 - scoreIssues(SelectSeq(Reanalysed.issues,
                                         LAMBDA i : i.type \in {"missing_canonical",
                                                                 "canonical_not_absolute",
                                                                 "canonical_base_mismatch"}))
               <= 100 - scoreIssues(<<Issue("missing_canonical", "error", "")>>)

====
